---- MODULE Spec2Model ----
(***************************************************************************)
(* LedgerFlow: the recurrence engine and the transaction codec of          *)
(* services/accountingService (src/unnamed/part_005) together with the App *)
(* effect that drives the engine (src/App.tsx).                            *)
(*                                                                         *)
(* Text is a sequence of one-character strings; an ISO date is the         *)
(* ten-character text "YYYY-MM-DD".  A Date object is its time value in    *)
(* hours since 2023-01-01T00:00Z (a Sunday).  The local-time methods of    *)
(* Date (getDate, setDate, getMonth, setMonth, getFullYear, setFullYear)   *)
(* read the host time zone, which is part of the state (tz).               *)
(***************************************************************************)
EXTENDS Integers, Sequences, FiniteSets, TLC

VARIABLES
    tz,                     \* host time zone used by Date's local-time methods
    now,                    \* the system clock (hours since the epoch)
    rng,                    \* hidden state of Math.random
    recurringTransactions,  \* App state: the rule list
    transactions,           \* App state: the transaction list
    calls,                  \* record of the engine's invocations, oldest first
    txInput,                \* codec: transaction list handed to the serializer
    csvText,                \* codec: text produced by the serializer
    parsed,                 \* codec: result of the parser
    phase,                  \* where the App is in the flow a specification follows
    accounts,               \* App state: the account list
    view,                   \* what the last render derived from the state
    form,                   \* state of the form that is open
    handed,                 \* what the forms handed to onSave, onAdd, onUpdate
    editingTransaction,     \* App state: the transaction being edited, or null
    disk,                   \* the files of the ledger folder in the vault
    saves,                  \* the calls of saveToDiskInternal still running
    modal                   \* the New Transaction modal of the command palette

vars == <<tz, now, rng, recurringTransactions, transactions, calls,
          txInput, csvText, parsed, phase, accounts, view,
          form, handed, editingTransaction, disk, saves, modal>>

engineVars == <<tz, now, rng, recurringTransactions, transactions, calls>>
codecVars == <<txInput, csvText, parsed, phase>>
treeVars == <<accounts, view>>
storeVars == <<form, handed, editingTransaction>>
diskVars == <<disk, saves, modal>>

(***************************************************************************)
(* Bounds of the model.                                                    *)
(***************************************************************************)
MaxCalls == 2       \* engine invocations per behaviour
MaxTicks == 1       \* clock advances per behaviour
MaxText == 2        \* characters in a payee or a description
MaxRows == 3        \* data rows in a Transaction.csv found in the vault
MaxAccounts == 3    \* accounts in an Accounts.json of arbitrary parent links

(***************************************************************************)
(* Text helpers.                                                           *)
(***************************************************************************)
Digits == <<"0", "1", "2", "3", "4", "5", "6", "7", "8", "9">>

\* UTF-16 code unit of the characters the model uses (JS compares strings by it).
CharCode(c) ==
    CASE c = "\n" -> 10
      [] c = " " -> 32
      [] c = "\"" -> 34
      [] c = "(" -> 40
      [] c = ")" -> 41
      [] c = "," -> 44
      [] c = "-" -> 45
      [] c \in {Digits[i] : i \in 1..10} -> 47 + (CHOOSE i \in 1..10 : Digits[i] = c)
      [] OTHER -> 97

IsDigit(c) == \E i \in 1..10 : Digits[i] = c
DigitVal(c) == (CHOOSE i \in 1..10 : Digits[i] = c) - 1

\* JS relational comparison of two strings: lexicographic by code unit,
\* a proper prefix being smaller.
RECURSIVE StrLeq(_, _)
StrLeq(a, b) ==
    IF a = <<>> THEN TRUE
    ELSE IF b = <<>> THEN FALSE
    ELSE IF CharCode(Head(a)) < CharCode(Head(b)) THEN TRUE
    ELSE IF CharCode(Head(a)) > CharCode(Head(b)) THEN FALSE
    ELSE StrLeq(Tail(a), Tail(b))

\* Number -> String of a non-negative integer.
RECURSIVE NatToStr(_)
NatToStr(n) ==
    IF n < 10 THEN <<Digits[n + 1]>>
    ELSE NatToStr(n \div 10) \o <<Digits[(n % 10) + 1]>>

\* Number -> String of an integer (the template literal `${n}`).
NumToStr(n) == IF n < 0 THEN <<"-">> \o NatToStr(-n) ELSE NatToStr(n)

\* Zero-padded decimal of width w (Date.prototype.toISOString fields).
RECURSIVE Pad(_, _)
Pad(s, w) == IF Len(s) >= w THEN s ELSE Pad(<<"0">> \o s, w)

\* Value of a text of decimal digits.
RECURSIVE DigitsToNat(_)
DigitsToNat(s) ==
    IF s = <<>> THEN 0
    ELSE DigitsToNat(SubSeq(s, 1, Len(s) - 1)) * 10 + DigitVal(s[Len(s)])

(***************************************************************************)
(* Calendar arithmetic of the Date object (ECMAScript MakeDay, MakeDate).  *)
(***************************************************************************)
IsLeap(y) == (y % 4 = 0 /\ y % 100 # 0) \/ y % 400 = 0

DaysInYear(y) == IF IsLeap(y) THEN 366 ELSE 365

DaysInMonth(y, m) ==
    IF m \in {4, 6, 9, 11} THEN 30
    ELSE IF m = 2 THEN (IF IsLeap(y) THEN 29 ELSE 28)
    ELSE 31

RECURSIVE DaysBeforeYear(_)
DaysBeforeYear(y) ==
    IF y <= 2023 THEN 0 ELSE DaysBeforeYear(y - 1) + DaysInYear(y - 1)

RECURSIVE DaysBeforeMonth(_, _)
DaysBeforeMonth(y, m) ==
    IF m <= 1 THEN 0 ELSE DaysBeforeMonth(y, m - 1) + DaysInMonth(y, m - 1)

\* MakeDay(year, month, date): month is 0-based and may exceed 11, date may
\* exceed the month's length; both roll over into the following months.
MakeDay(y, mIdx, d) ==
    DaysBeforeYear(y + (mIdx \div 12))
    + DaysBeforeMonth(y + (mIdx \div 12), (mIdx % 12) + 1) + d - 1

\* Day number -> <<year, day of the year (0-based)>>.
RECURSIVE YearFromDay(_, _)
YearFromDay(n, y) ==
    IF n < DaysInYear(y) THEN <<y, n>> ELSE YearFromDay(n - DaysInYear(y), y + 1)

\* Day of the year y -> [y, m, d] (m and d are 1-based).
RECURSIVE MonthFromDay(_, _, _)
MonthFromDay(n, y, m) ==
    IF n < DaysInMonth(y, m) THEN [y |-> y, m |-> m, d |-> n + 1]
    ELSE MonthFromDay(n - DaysInMonth(y, m), y, m + 1)

CivilFromYearDay(yd) == MonthFromDay(yd[2], yd[1], 1)

\* Day number -> [y, m, d].
CivilFromDay(n) == CivilFromYearDay(YearFromDay(n, 2023))

(***************************************************************************)
(* Host time zones: the environment of Date's local-time methods.          *)
(***************************************************************************)
Zones ==
    { [name |-> "UTC",              std |-> 0,  dst |-> "none"],
      [name |-> "America/New_York", std |-> -5, dst |-> "US"],
      [name |-> "Europe/Berlin",    std |-> 1,  dst |-> "EU"],
      [name |-> "Asia/Tokyo",       std |-> 9,  dst |-> "none"] }

\* Day number of the Sunday on or after / on or before day n (day 0 is a Sunday).
SundayOnOrAfter(n) == n + ((7 - (n % 7)) % 7)
SundayOnOrBefore(n) == n - (n % 7)

\* The instants (UTC hours) at which daylight time starts and ends in year y:
\* US, second Sunday of March 02:00 local to first Sunday of November 02:00
\* local; EU, last Sunday of March 01:00Z to last Sunday of October 01:00Z.
DstStart(z, y) ==
    IF z.dst = "US"
    THEN (SundayOnOrAfter(MakeDay(y, 2, 1)) + 7) * 24 + 2 - z.std
    ELSE SundayOnOrBefore(MakeDay(y, 2, 31)) * 24 + 1

DstEnd(z, y) ==
    IF z.dst = "US"
    THEN SundayOnOrAfter(MakeDay(y, 10, 1)) * 24 + 1 - z.std
    ELSE SundayOnOrBefore(MakeDay(y, 9, 31)) * 24 + 1

OffsetInYear(z, t, y) ==
    IF DstStart(z, y) <= t /\ t < DstEnd(z, y) THEN z.std + 1 ELSE z.std

\* UTC offset in hours at instant t.
Offset(z, t) ==
    IF z.dst = "none" THEN z.std ELSE OffsetInYear(z, t, CivilFromDay(t \div 24).y)

\* LocalTime(t): the local clock reading at instant t.
LocalTime(z, t) == t + Offset(z, t)

\* UTC(local): the instant of a local clock reading; a reading that daylight
\* time skips is taken with the offset in force before the transition.
UTCOf(z, local) ==
    IF z.dst # "none" /\ Offset(z, local - z.std - 1) = z.std + 1
    THEN local - z.std - 1
    ELSE local - z.std

\* new Date("YYYY-MM-DD"): a date-only ISO text is UTC midnight.
ParseISODate(s) ==
    MakeDay(DigitsToNat(SubSeq(s, 1, 4)), DigitsToNat(SubSeq(s, 6, 7)) - 1,
            DigitsToNat(SubSeq(s, 9, 10))) * 24

\* "YYYY-MM-DD", zero-padded.
FormatISO(c) ==
    Pad(NatToStr(c.y), 4) \o <<"-">> \o Pad(NatToStr(c.m), 2) \o <<"-">>
    \o Pad(NatToStr(c.d), 2)

\* date.toISOString().split('T')[0]: the UTC calendar date.
ToISODate(t) == FormatISO(CivilFromDay(t \div 24))

\* The ISO text of a calendar date (the value of an <input type="date">).
ISO(y, m, d) == ToISODate(MakeDay(y, m - 1, d) * 24)

WithHour(c, h) == [y |-> c.y, m |-> c.m, d |-> c.d, h |-> h]
FieldsOfLocal(lt) == WithHour(CivilFromDay(lt \div 24), lt % 24)

\* Local calendar fields of the Date with time value t (getFullYear,
\* getMonth + 1, getDate, getHours).
LocalFields(z, t) == FieldsOfLocal(LocalTime(z, t))

(***************************************************************************)
(* Recurrence engine (services/accountingService).                         *)
(***************************************************************************)
\* generateId(): Math.random().toString(36).substr(2, 9).  The generator is
\* a hidden state r; successive draws differ.
generateId(r) == <<"g">> \o NatToStr(r)

\* result.setDate(d), result.setMonth(m), result.setFullYear(y) on a Date
\* whose local fields are f: the other local fields are kept.
SetDate(z, f, d) == UTCOf(z, MakeDay(f.y, f.m - 1, d) * 24 + f.h)
SetMonth(z, f, mIdx) == UTCOf(z, MakeDay(f.y, mIdx, f.d) * 24 + f.h)
SetFullYear(z, f, y) == UTCOf(z, MakeDay(y, f.m - 1, f.d) * 24 + f.h)

GetDateSetDate(z, f, days) == SetDate(z, f, f.d + days)
GetMonthSetMonth(z, f, months) == SetMonth(z, f, (f.m - 1) + months)
GetYearSetYear(z, f, years) == SetFullYear(z, f, f.y + years)

\* result.setDate(result.getDate() + days)
addDays(z, date, days) == GetDateSetDate(z, LocalFields(z, date), days)

\* A variant that clamps the day to the length of the target month.
addMonthsClamped(z, date, months) ==
    SetDate(z, WithHour(CivilFromDay(MakeDay(LocalFields(z, date).y,
                                             (LocalFields(z, date).m - 1) + months, 1)),
                        LocalFields(z, date).h),
            IF LocalFields(z, date).d
                 > DaysInMonth(CivilFromDay(MakeDay(LocalFields(z, date).y,
                       (LocalFields(z, date).m - 1) + months, 1)).y,
                     CivilFromDay(MakeDay(LocalFields(z, date).y,
                       (LocalFields(z, date).m - 1) + months, 1)).m)
            THEN DaysInMonth(CivilFromDay(MakeDay(LocalFields(z, date).y,
                       (LocalFields(z, date).m - 1) + months, 1)).y,
                     CivilFromDay(MakeDay(LocalFields(z, date).y,
                       (LocalFields(z, date).m - 1) + months, 1)).m)
            ELSE LocalFields(z, date).d)

\* result.setMonth(result.getMonth() + months)
addMonths(z, date, months) == GetMonthSetMonth(z, LocalFields(z, date), months)

\* result.setFullYear(result.getFullYear() + years)
addYears(z, date, years) == GetYearSetYear(z, LocalFields(z, date), years)

\* The switch of calculateNextDueDate.
NextDate(z, dateObj, frequency) ==
    CASE frequency = "daily" -> addDays(z, dateObj, 1)
      [] frequency = "weekly" -> addDays(z, dateObj, 7)
      [] frequency = "monthly" -> addMonths(z, dateObj, 1)
      [] frequency = "yearly" -> addYears(z, dateObj, 1)
      [] OTHER -> dateObj

NextDueDateOf(z, currentDate, frequency) ==
    ToISODate(NextDate(z, ParseISODate(currentDate), frequency))

\* The results for the dates of the year before the session, worked out
\* once (the same computation, looked up).
Frequencies == {"daily", "weekly", "monthly", "yearly"}

TabledDates == {ToISODate(d * 24) : d \in MakeDay(2023, 2, 1)..MakeDay(2024, 3, 3)}

DueDateTable ==
    [z \in Zones |-> [f \in Frequencies |-> [d \in TabledDates |->
        NextDueDateOf(z, d, f)]]]

calculateNextDueDate(z, currentDate, frequency) ==
    IF frequency \in Frequencies /\ currentDate \in TabledDates
    THEN DueDateTable[z][frequency][currentDate]
    ELSE NextDueDateOf(z, currentDate, frequency)

\* The text appended to the description of a generated transaction.
RecurringMarker == <<" ", "(", "R", "e", "c", "u", "r", "r", "i", "n", "g", ")">>

NoDate == <<>>      \* lastRun of a rule that never ran (the field is absent)

\* A variant that works on the input object itself.
NoSpreadCopy(item) == [obj |-> item, shared |-> TRUE]

\* let activeItem = { ...item }: a fresh object; writes to it do not reach item.
SpreadCopy(item) == [obj |-> item, shared |-> FALSE]

\* Variants of the due test: a strict comparison; no look at the active flag.
IsDueStrict(activeItem, today) ==
    activeItem.active /\ StrLeq(activeItem.nextDueDate, today)
    /\ activeItem.nextDueDate # today

IsDueIgnoringActive(activeItem, today) == StrLeq(activeItem.nextDueDate, today)

\* if (activeItem.active && activeItem.nextDueDate <= today)
IsDue(activeItem, today) ==
    activeItem.active /\ StrLeq(activeItem.nextDueDate, today)

\* A variant that catches up two periods in one call.
AdvanceRuleTwice(z, activeItem) ==
    [activeItem EXCEPT
        !.lastRun = activeItem.nextDueDate,
        !.nextDueDate =
            calculateNextDueDate(z,
                calculateNextDueDate(z, activeItem.nextDueDate, activeItem.frequency),
                activeItem.frequency)]

\* activeItem.lastRun = ...; activeItem.nextDueDate = calculateNextDueDate(...)
AdvanceRule(z, activeItem) ==
    [activeItem EXCEPT
        !.lastRun = activeItem.nextDueDate,
        !.nextDueDate = calculateNextDueDate(z, activeItem.nextDueDate,
                                             activeItem.frequency)]

\* A variant that dates the transaction on the day it is generated.
NewTxDatedToday(activeItem, id, createdAt) ==
    [id |-> id,
     date |-> ToISODate(createdAt),
     payee |-> activeItem.payee,
     description |-> activeItem.description \o RecurringMarker,
     splits |-> activeItem.splits,
     createdAt |-> createdAt]

\* const newTx: Transaction = {...}
NewTx(activeItem, id, createdAt) ==
    [id |-> id,
     date |-> activeItem.nextDueDate,
     payee |-> activeItem.payee,
     description |-> activeItem.description \o RecurringMarker,
     splits |-> activeItem.splits,
     createdAt |-> createdAt]

\* The branch of the map callback taken by a due rule.  inputAfter is the
\* input object as the call leaves it.
EmitAndAdvance(env, item, copy, advanced, r) ==
    [out |-> advanced,
     txs |-> <<NewTx(copy.obj, generateId(r), env.now)>>,
     inputAfter |-> IF copy.shared THEN advanced ELSE item,
     rng |-> r + 1]

ProcessCopy(env, today, item, copy, r) ==
    IF IsDue(copy.obj, today)
    THEN EmitAndAdvance(env, item, copy, AdvanceRule(env.tz, copy.obj), r)
    ELSE [out |-> copy.obj, txs |-> <<>>, inputAfter |-> item, rng |-> r]

\* One call of the callback of recurringList.map; r is the generator state
\* before the call.
ProcessItem(env, today, item, r) ==
    ProcessCopy(env, today, item, SpreadCopy(item), r)

Accumulate(acc, p) ==
    [newTransactions |-> acc.newTransactions \o p.txs,
     updatedRecurring |-> Append(acc.updatedRecurring, p.out),
     inputAfter |-> Append(acc.inputAfter, p.inputAfter),
     rng |-> p.rng]

RECURSIVE MapItems(_, _, _, _, _)
MapItems(env, today, list, i, acc) ==
    IF i > Len(list) THEN acc
    ELSE MapItems(env, today, list, i + 1,
                  Accumulate(acc, ProcessItem(env, today, list[i], acc.rng)))

\* const today = new Date().toISOString().split('T')[0]
Today(env) == ToISODate(env.now)

EngineResult(res, currentTransactions) ==
    [newTransactions |-> res.newTransactions,
     updatedRecurring |-> res.updatedRecurring,
     inputAfter |-> res.inputAfter,
     txsAfter |-> currentTransactions,
     rng |-> res.rng]

\* env is what the function reads without being handed it: the clock, the
\* random generator and the host time zone.  Beside the returned pair the
\* result tells how the call leaves its arguments (inputAfter, txsAfter) and
\* the generator (rng).  today is a const of the call: read once.
processDueRecurringTransactions(env, recurringList, currentTransactions) ==
    CHOOSE result \in
        { EngineResult(MapItems(env, today, recurringList, 1,
                           [newTransactions |-> <<>>, updatedRecurring |-> <<>>,
                            inputAfter |-> <<>>, rng |-> env.rng]),
                       currentTransactions) : today \in {Today(env)} } : TRUE

(***************************************************************************)
(* Transaction codec (services/accountingService).                         *)
(*                                                                         *)
(* A JS number that may be NaN is <<n>> when finite and <<>> when NaN; an  *)
(* absent (undefined) value is Undefined.                                  *)
(***************************************************************************)
Num(n) == <<n>>
NaN == <<>>
Undefined == <<"undefined">>

\* const header = "...\n" without its final line feed.
HeaderRow ==
    <<"T", "r", "a", "n", "s", "a", "c", "t", "i", "o", "n", " ", "I",
      "D", ",", "D", "a", "t", "e", ",", "C", "r", "e", "a", "t", "e",
      "d", " ", "A", "t", ",", "P", "a", "y", "e", "e", ",", "D", "e",
      "s", "c", "r", "i", "p", "t", "i", "o", "n", ",", "A", "c", "c",
      "o", "u", "n", "t", " ", "I", "D", ",", "A", "m", "o", "u", "n",
      "t">>

\* `${x}` of a number.
NumberToString(x) == IF x = NaN THEN <<"N", "a", "N">> ELSE NumToStr(x[1])

\* (value || ''): an absent or empty text is ''.
OrEmpty(s) == IF s = Undefined THEN <<>> ELSE s

\* A serializer that writes the text as it is.
KeepQuotes(s) == s

\* s.replace(/"/g, '""')
RECURSIVE DoubleQuotes(_)
DoubleQuotes(s) ==
    IF s = <<>> THEN <<>>
    ELSE (IF Head(s) = "\"" THEN <<"\"", "\"">> ELSE <<Head(s)>>)
         \o DoubleQuotes(Tail(s))

\* The template literal of one row.
CsvRow(tx, split) ==
    tx.id \o <<",">> \o tx.date \o <<",">> \o NumberToString(tx.createdAt)
    \o <<",", "\"">> \o DoubleQuotes(OrEmpty(tx.payee))
    \o <<"\"", ",", "\"">> \o DoubleQuotes(OrEmpty(tx.description))
    \o <<"\"", ",">> \o split.accountId \o <<",">> \o NumberToString(split.amount)

\* tx.splits.map(split => row)
SplitRows(tx) == [k \in 1..Len(tx.splits) |-> CsvRow(tx, tx.splits[k])]

\* transactions.flatMap(tx => tx.splits.map(...))
RECURSIVE FlatMapRows(_)
FlatMapRows(txs) ==
    IF txs = <<>> THEN <<>> ELSE SplitRows(Head(txs)) \o FlatMapRows(Tail(txs))

\* rows.join(sep)
RECURSIVE Join(_, _)
Join(rows, sep) ==
    IF rows = <<>> THEN <<>>
    ELSE IF Len(rows) = 1 THEN rows[1]
    ELSE rows[1] \o sep \o Join(Tail(rows), sep)

serializeTransactionsToCSV(txs) ==
    HeaderRow \o <<"\n">> \o Join(FlatMapRows(txs), <<"\n">>)

\* csvContent.split(/\r?\n/): the pieces between line feeds, a carriage
\* return right before a line feed belonging to the separator.
LineFeeds(text) == {k \in 1..Len(text) : text[k] = "\n"}

\* The position of the j-th line feed; 0 before the first piece and
\* Len(text) + 1 after the last.
LineFeedAt(text, j) ==
    IF j = 0 THEN 0
    ELSE IF j > Cardinality(LineFeeds(text)) THEN Len(text) + 1
    ELSE CHOOSE k \in LineFeeds(text) :
             Cardinality({m \in LineFeeds(text) : m < k}) = j - 1

DropCR(text, from, to) ==
    IF to <= Len(text) /\ from < to /\ text[to - 1] = "\r"
    THEN SubSeq(text, from, to - 2)
    ELSE SubSeq(text, from, to - 1)

SplitLines(text) ==
    [j \in 1..(Cardinality(LineFeeds(text)) + 1) |->
        DropCR(text, LineFeedAt(text, j - 1) + 1, LineFeedAt(text, j))]

IsSpace(c) == c \in {" ", "\n", "\r", "\t"}

RECURSIVE TrimStart(_)
TrimStart(s) == IF s # <<>> /\ IsSpace(Head(s)) THEN TrimStart(Tail(s)) ELSE s

RECURSIVE TrimEnd(_)
TrimEnd(s) ==
    IF s # <<>> /\ IsSpace(s[Len(s)]) THEN TrimEnd(SubSeq(s, 1, Len(s) - 1)) ELSE s

\* s.trim()
Trim(s) == TrimEnd(TrimStart(s))

\* The regular expression
\*   /(?:^|,)(?:"([^"]*(?:""[^"]*)*)"|([^",]*))/g
\* run by regex.exec in a loop.  Positions are 0-based as in lastIndex.
CharAt(line, p) == line[p + 1]

\* First position >= p holding a double quote, or Len(line).
RECURSIVE NextQuote(_, _)
NextQuote(line, p) ==
    IF p >= Len(line) \/ CharAt(line, p) = "\"" THEN p ELSE NextQuote(line, p + 1)

\* First position >= p not holding a double quote, or Len(line).
RECURSIVE EndOfQuoteRun(_, _)
EndOfQuoteRun(line, p) ==
    IF p >= Len(line) \/ CharAt(line, p) # "\"" THEN p ELSE EndOfQuoteRun(line, p + 1)

\* The end of the match of the quoted content and its closing quote from
\* position p, or -1: the
\* greedy match runs to the last double quote that leaves the quotes before
\* it paired; a is the next quote, b the end of its run.
RECURSIVE QuotedTail(_, _)
RECURSIVE QuotedRun(_, _, _)
QuotedRun(line, a, b) ==
    IF a >= Len(line) THEN -1
    ELSE IF (b - a) % 2 = 1 THEN b
    ELSE IF QuotedTail(line, b) # -1 THEN QuotedTail(line, b)
    ELSE b - 1

QuotedTail(line, p) ==
    QuotedRun(line, NextQuote(line, p), EndOfQuoteRun(line, NextQuote(line, p)))

\* The end of the match of [^",]* from position p.
RECURSIVE UnquotedEnd(_, _)
UnquotedEnd(line, p) ==
    IF p >= Len(line) \/ CharAt(line, p) \in {"\"", ","} THEN p
    ELSE UnquotedEnd(line, p + 1)

\* The end of the field alternation at position q: the quoted alternative
\* first, the unquoted one when it fails.
FieldEnd(line, q) ==
    IF q < Len(line) /\ CharAt(line, q) = "\"" /\ QuotedTail(line, q + 1) # -1
    THEN QuotedTail(line, q + 1)
    ELSE UnquotedEnd(line, q)

\* First position >= p where (?:^|,) matches, or -1.
RECURSIVE MatchStart(_, _)
MatchStart(line, p) ==
    IF p >= Len(line) THEN -1
    ELSE IF p = 0 \/ CharAt(line, p) = "," THEN p
    ELSE MatchStart(line, p + 1)

\* The end of the match that starts at position s: at 0 the prefix is ^ and
\* consumes nothing, elsewhere it is the comma.
MatchEnd(line, s) == FieldEnd(line, IF s = 0 THEN 0 ELSE s + 1)

\* The while loop over regex.exec(line): the number of matches pushed, or -1
\* when the loop never ends (an empty match leaves lastIndex where it was).
RECURSIVE ExecLoop(_, _, _)
ExecStep(line, s, e, n) ==
    IF s = -1 THEN n
    ELSE IF e = s THEN -1
    ELSE ExecLoop(line, e, n + 1)

ExecLoop(line, lastIndex, n) ==
    ExecStep(line, MatchStart(line, lastIndex),
             IF MatchStart(line, lastIndex) = -1 THEN -1
             ELSE MatchEnd(line, MatchStart(line, lastIndex)), n)

RegexMatches(line) == ExecLoop(line, 0, 0)

\* for (let char of line) { ... } row.push(currentVal)
RECURSIVE ScanRow(_, _, _, _)
ScanRow(line, row, currentVal, inQuote) ==
    IF line = <<>> THEN Append(row, currentVal)
    ELSE IF Head(line) = "\"" THEN ScanRow(Tail(line), row, currentVal, ~inQuote)
    ELSE IF Head(line) = "," /\ ~inQuote
         THEN ScanRow(Tail(line), Append(row, currentVal), <<>>, inQuote)
    ELSE ScanRow(Tail(line), row, Append(currentVal, Head(line)), inQuote)

\* s.replace(/""/g, '"')
RECURSIVE UndoubleQuotes(_)
UndoubleQuotes(s) ==
    IF Len(s) >= 2 /\ s[1] = "\"" /\ s[2] = "\""
    THEN <<"\"">> \o UndoubleQuotes(SubSeq(s, 3, Len(s)))
    ELSE IF s = <<>> THEN <<>>
    ELSE <<Head(s)>> \o UndoubleQuotes(Tail(s))

\* The callback of row.map in "Clean up quotes from start/end".
CleanCell(c) ==
    IF c # <<>> /\ c[1] = "\"" /\ c[Len(c)] = "\""
    THEN UndoubleQuotes(SubSeq(c, 2, Len(c) - 1))
    ELSE c

CleanRow(row) == [k \in 1..Len(row) |-> CleanCell(row[k])]

\* Array destructuring: a missing element is undefined.
Element(row, k) == IF k <= Len(row) THEN row[k] ELSE Undefined

AllDigits(s) == s # <<>> /\ \A k \in 1..Len(s) : IsDigit(s[k])

\* Number(text) of a trimmed text over the model's characters.
NumberOfTrimmed(s) ==
    IF s = <<>> THEN Num(0)
    ELSE IF AllDigits(s) THEN Num(DigitsToNat(s))
    ELSE IF Head(s) = "-" /\ AllDigits(Tail(s)) THEN Num(-DigitsToNat(Tail(s)))
    ELSE NaN

\* Number(value)
ToNumber(s) == IF s = Undefined THEN NaN ELSE NumberOfTrimmed(Trim(s))

\* A lookup that only finds the transaction of the row before.
IndexOfIdAdjacent(txs, id) ==
    IF txs # <<>> /\ txs[Len(txs)].id = id THEN Len(txs) ELSE 0

\* txMap: the transactions in insertion order.
IndexOfId(txs, id) ==
    IF \E k \in 1..Len(txs) : txs[k].id = id
    THEN CHOOSE k \in 1..Len(txs) : txs[k].id = id
    ELSE 0

\* if (!txMap.has(id)) txMap.set(id, {...})
EnsureTx(txs, row) ==
    IF IndexOfId(txs, Element(row, 1)) # 0 THEN txs
    ELSE Append(txs, [id |-> Element(row, 1),
                      date |-> Element(row, 2),
                      createdAt |-> ToNumber(Element(row, 3)),
                      payee |-> Element(row, 4),
                      description |-> Element(row, 5),
                      splits |-> <<>>])

\* txMap.get(id)!.splits.push({accountId, amount})
PushSplit(txs, k, row) ==
    [txs EXCEPT ![k].splits =
        Append(@, [accountId |-> Element(row, 6),
                   amount |-> ToNumber(Element(row, 7))])]

AddRow(txs, row) == PushSplit(EnsureTx(txs, row), IndexOfId(EnsureTx(txs, row), Element(row, 1)), row)

\* The comparator (a, b) => b.createdAt - a.createdAt is negative: a sorts
\* before b.  A NaN difference orders nothing.
SortsBefore(a, b) ==
    a.createdAt # NaN /\ b.createdAt # NaN /\ b.createdAt[1] - a.createdAt[1] < 0

\* Array.prototype.sort, which is stable: insertion from the left.
RECURSIVE InsertSorted(_, _)
InsertSorted(sorted, tx) ==
    IF sorted = <<>> THEN <<tx>>
    ELSE IF SortsBefore(tx, Head(sorted)) THEN <<tx>> \o sorted
    ELSE <<Head(sorted)>> \o InsertSorted(Tail(sorted), tx)

RECURSIVE SortByCreatedAtDesc(_, _)
SortByCreatedAtDesc(txs, sorted) ==
    IF txs = <<>> THEN sorted
    ELSE SortByCreatedAtDesc(Tail(txs), InsertSorted(sorted, Head(txs)))

\* The body of the for loop over the lines after the header; st is
\* [txs, hangs].
RECURSIVE ParseLines(_, _, _)
ParseLine(lines, i, st, line, n) ==
    IF line = <<>> THEN ParseLines(lines, i + 1, st)
    ELSE IF n = -1 THEN [txs |-> st.txs, hangs |-> TRUE]
    ELSE IF n < 7 THEN ParseLines(lines, i + 1, st)
    ELSE ParseLines(lines, i + 1,
             [txs |-> AddRow(st.txs, CleanRow(ScanRow(line, <<>>, <<>>, FALSE))),
              hangs |-> FALSE])

ParseLines(lines, i, st) ==
    IF i > Len(lines) THEN st
    ELSE ParseLine(lines, i, st, Trim(lines[i]),
                   IF Trim(lines[i]) = <<>> THEN 0 ELSE RegexMatches(Trim(lines[i])))

\* The comparator is consistent unless a NaN createdAt stands between two
\* transactions it orders: every comparison with NaN is +0.
ConsistentComparator(txs) ==
    ~ /\ \E k \in 1..Len(txs) : txs[k].createdAt = NaN
      /\ \E j, k \in 1..Len(txs) : SortsBefore(txs[j], txs[k])

Reorderings(txs) ==
    { [k \in 1..Len(txs) |-> txs[f[k]]] :
        f \in { g \in [1..Len(txs) -> 1..Len(txs)] :
                  \A j, k \in 1..Len(txs) : j # k => g[j] # g[k] } }

\* The orders sort can return: with an inconsistent comparator the order is
\* implementation-defined.
SortOutcomes(txs) ==
    IF ConsistentComparator(txs) THEN {SortByCreatedAtDesc(txs, <<>>)}
    ELSE Reorderings(txs)

ParseOutcomes(st) ==
    IF st.hangs THEN {[returns |-> FALSE, txs |-> <<>>]}
    ELSE {[returns |-> TRUE, txs |-> order] : order \in SortOutcomes(st.txs)}

\* The results the call can have.  returns = FALSE: the call never returns
\* (the exec loop does not end).
parseTransactionsFromCSV(csvContent) ==
    ParseOutcomes(ParseLines(SplitLines(csvContent), 2,
                             [txs |-> <<>>, hangs |-> FALSE]))

(***************************************************************************)
(* Accounts, paths and balances (services/accountingService).              *)
(*                                                                         *)
(* An account is [id, parentId, name]; type, budget and description are    *)
(* carried along by the code and read by none of these functions' results  *)
(* modelled here.  Amounts are integers.                                   *)
(***************************************************************************)
Null == <<"null">>

\* while (current.parentId && depth < 20)
MaxPathDepth == 20

\* A value taken as true by && and by while: not null, not ''.
Truthy(x) == x # Null /\ x # <<>>

AccountIds(accs) == {accs[k].id : k \in 1..Len(accs)}

IdsOf(accs) == [k \in 1..Len(accs) |-> accs[k].id]

\* accountMap.set(acc.id, {...acc, children: []}): the entry of an id is
\* the copy of the last account with that id.
LastIndexOfId(accs, id) ==
    CHOOSE k \in 1..Len(accs) :
        accs[k].id = id /\ \A j \in (k + 1)..Len(accs) : accs[j].id # id

\* acc.parentId && accountMap.has(acc.parentId)
HasParentNode(accs, acc) ==
    Truthy(acc.parentId) /\ acc.parentId \in AccountIds(accs)

\* The nodes pushed to the children of the node of id, in push order.
ChildNodes(accs, id) ==
    IdsOf(SelectSeq(accs, LAMBDA a : HasParentNode(accs, a) /\ a.parentId = id))

\* A variant that keeps only the accounts without a parentId as roots.
IsRootNodeNullOnly(accs, acc) == ~Truthy(acc.parentId)

\* The else branch: roots.push(node).
IsRootNode(accs, acc) == ~HasParentNode(accs, acc)

TreeNode(acc, children) ==
    [id |-> acc.id, parentId |-> acc.parentId, name |-> acc.name,
     children |-> children]

\* The forest as the object graph it is: the nodes of accountMap by id,
\* children and roots as references to nodes (a node can be its own
\* descendant).  inputAfter is the argument after the call.
buildAccountTree(accs) ==
    [roots |-> IdsOf(SelectSeq(accs, LAMBDA a : IsRootNode(accs, a))),
     nodes |-> [id \in AccountIds(accs) |->
                   TreeNode(accs[LastIndexOfId(accs, id)], ChildNodes(accs, id))],
     inputAfter |-> accs]

\* allAccounts.find(a => a.id === id): the index of the first match, 0 when
\* there is none.
FindIndexById(accs, id) ==
    IF \E k \in 1..Len(accs) : accs[k].id = id
    THEN CHOOSE k \in 1..Len(accs) :
             accs[k].id = id /\ \A j \in 1..(k - 1) : accs[j].id # id
    ELSE 0

\* A variant whose safety counter lets one more link through.
WalkContinuesOneMore(current, depth) ==
    Truthy(current.parentId) /\ depth <= MaxPathDepth

\* while (current.parentId && depth < 20)
WalkContinues(current, depth) ==
    Truthy(current.parentId) /\ depth < MaxPathDepth

\* A variant that writes the parent after the path.
RECURSIVE PathLoop(_, _, _, _)
PathStepLeafFirst(accs, path, current, k, depth) ==
    IF k = 0 THEN path
    ELSE PathLoop(accs, path \o <<":">> \o accs[k].name, accs[k], depth + 1)

\* The body of the while loop; k is the index of the parent found.
PathStep(accs, path, current, k, depth) ==
    IF k = 0 THEN path
    ELSE PathLoop(accs, accs[k].name \o <<":">> \o path, accs[k], depth + 1)

PathLoop(accs, path, current, depth) ==
    IF WalkContinues(current, depth)
    THEN PathStep(accs, path, current, FindIndexById(accs, current.parentId), depth)
    ELSE path

getAccountPath(account, allAccounts) ==
    PathLoop(allAccounts, account.name, account, 0)

\* A variant that looks at the first split of a transaction only.
BalanceOverFirstSplit(splits, accountId, balance) ==
    IF splits # <<>> /\ Head(splits).accountId = accountId
    THEN balance + Head(splits).amount ELSE balance

\* tx.splits.forEach(split => { if (split.accountId === accountId) ... })
RECURSIVE BalanceOverSplits(_, _, _)
BalanceOverSplits(splits, accountId, balance) ==
    IF splits = <<>> THEN balance
    ELSE BalanceOverSplits(Tail(splits), accountId,
             IF Head(splits).accountId = accountId
             THEN balance + Head(splits).amount ELSE balance)

\* transactions.forEach(tx => ...)
RECURSIVE BalanceOverTxs(_, _, _)
BalanceOverTxs(txs, accountId, balance) ==
    IF txs = <<>> THEN balance
    ELSE BalanceOverTxs(Tail(txs), accountId,
             BalanceOverSplits(Head(txs).splits, accountId, balance))

calculateAccountBalance(accountId, txs) == BalanceOverTxs(txs, accountId, 0)

\* allAccounts.filter(a => a.parentId === account.id)
ChildrenOf(accs, id) == SelectSeq(accs, LAMBDA a : a.parentId = id)

\* A result is [throws, total]: throws when the recursion never ends and
\* the stack overflows (RangeError), which it does exactly when it goes
\* deeper than there are accounts.
Thrown == [throws |-> TRUE, total |-> 0]

Returned(total) == [throws |-> FALSE, total |-> total]

RECURSIVE TreeBalance(_, _, _, _)
RECURSIVE AddChildren(_, _, _, _, _)
\* A variant that assigns where the code adds.
AddChildAssigning(children, accs, txs, depth, res, childRes) ==
    IF childRes.throws THEN Thrown
    ELSE AddChildren(Tail(children), accs, txs, depth, Returned(childRes.total))

\* total += calculateTreeBalance(child, allAccounts, transactions)
AddChild(children, accs, txs, depth, res, childRes) ==
    IF childRes.throws THEN Thrown
    ELSE AddChildren(Tail(children), accs, txs, depth,
                     Returned(res.total + childRes.total))

\* children.forEach(child => ...)
AddChildren(children, accs, txs, depth, res) ==
    IF children = <<>> THEN res
    ELSE AddChild(children, accs, txs, depth, res,
                  TreeBalance(Head(children), accs, txs, depth + 1))

\* A variant that leaves the children out.
TreeBalanceOwnOnly(account, accs, txs, depth) ==
    Returned(calculateAccountBalance(account.id, txs))

TreeBalance(account, accs, txs, depth) ==
    IF depth > Len(accs) THEN Thrown
    ELSE AddChildren(ChildrenOf(accs, account.id), accs, txs, depth,
                     Returned(calculateAccountBalance(account.id, txs)))

calculateTreeBalance(account, allAccounts, txs) ==
    TreeBalance(account, allAccounts, txs, 0)

BalanceRow(acc, res) == [id |-> acc.id, name |-> acc.name, balance |-> res.total]

\* accounts.map(acc => ({...})): [throws, rows]; the call throws when one
\* of the balances does.
getFlattenedBalances(accs, txs) ==
    IF \E k \in 1..Len(accs) : calculateTreeBalance(accs[k], accs, txs).throws
    THEN [throws |-> TRUE, rows |-> <<>>]
    ELSE [throws |-> FALSE,
          rows |-> [k \in 1..Len(accs) |->
                      BalanceRow(accs[k], calculateTreeBalance(accs[k], accs, txs))]]

\* The ids pushed after one more round of pops from the ids of a set.
ChildIdsOf(accs, ids) ==
    {accs[k].id : k \in {j \in 1..Len(accs) : accs[j].parentId \in ids}}

\* The ids that reach the stack within n rounds of pops after the ids of a
\* set were popped.
RECURSIVE PushedAfter(_, _, _)
PushedAfter(accs, ids, n) ==
    IF n = 0 THEN {}
    ELSE ChildIdsOf(accs, ids) \cup PushedAfter(accs, ChildIdsOf(accs, ids), n - 1)

\* Popping this id brings it back onto the stack later: from then on the
\* while loop pops and pushes for ever (the stack never empties).
PushedAgain(accs, id) == id \in PushedAfter(accs, {id}, Len(accs))

\* stack.pop(): the stack is a sequence with its top at the end.
Top(stack) == stack[Len(stack)]

Pop(stack) == SubSeq(stack, 1, Len(stack) - 1)

\* A variant that pushes the first child only.
PushFirstChild(stack, children) ==
    IF children = <<>> THEN stack ELSE Append(stack, children[1].id)

\* children.forEach(c => stack.push(c.id))
PushChildren(stack, children) == stack \o IdsOf(children)

\* A result is [returns, ids]: the Set returned, or no return at all.
NeverReturns == [returns |-> FALSE, ids |-> {}]

\* The while loop of getDescendantAccountIds; nothing in it looks at the
\* ids already in result.
RECURSIVE DescendLoop(_, _, _)
DescendLoop(accs, stack, result) ==
    IF stack = <<>> THEN [returns |-> TRUE, ids |-> result]
    ELSE IF PushedAgain(accs, Top(stack)) THEN NeverReturns
    ELSE DescendLoop(accs,
                     PushChildren(Pop(stack), ChildrenOf(accs, Top(stack))),
                     result \cup {Top(stack)})

getDescendantAccountIds(rootId, allAccounts) ==
    DescendLoop(allAccounts, <<rootId>>, {})

(***************************************************************************)
(* The App around the engine.                                              *)
(***************************************************************************)
Env == [tz |-> tz, now |-> now, rng |-> rng]

\* The instant the modelled session starts: 2024-04-02T10:00Z.
ClockStart == MakeDay(2024, 3, 2) * 24 + 10

TicksOf(elapsed) == (elapsed \div 24) + (elapsed % 24)
TicksTaken == TicksOf(now - ClockStart)

\* Rules as RecurringManager.handleSubmit builds them, later paused or not.
Rule(id, payee, description, to, from, amount, frequency, startDate, active) ==
    [id |-> id, payee |-> payee, description |-> description,
     frequency |-> frequency, nextDueDate |-> startDate,
     splits |-> <<[accountId |-> to, amount |-> amount],
                  [accountId |-> from, amount |-> -amount]>>,
     lastRun |-> NoDate, active |-> active]

Schedules ==
    { <<"daily", ISO(2024, 3, 10)>>, <<"daily", ISO(2024, 3, 31)>>,
      <<"daily", ISO(2024, 4, 1)>>, <<"daily", ISO(2024, 4, 3)>>,
      <<"weekly", ISO(2024, 3, 26)>>,
      <<"monthly", ISO(2024, 1, 31)>>, <<"monthly", ISO(2024, 3, 1)>>,
      <<"yearly", ISO(2024, 2, 29)>>, <<"yearly", ISO(2023, 3, 1)>> }

SecondSchedules ==
    { <<"daily", ISO(2024, 4, 1)>>, <<"monthly", ISO(2024, 4, 3)>> }

FirstRules ==
    { Rule(<<"r", "1">>, <<"L", "a", "n", "d">>, <<"R", "e", "n", "t">>,
           <<"e", "1">>, <<"a", "1">>, 900, s[1], s[2], a) :
        s \in Schedules, a \in BOOLEAN }

SecondRules ==
    { Rule(<<"r", "2">>, <<"G", "y", "m">>, <<"F", "e", "e">>,
           <<"e", "2">>, <<"a", "1">>, 30, s[1], s[2], a) :
        s \in SecondSchedules, a \in BOOLEAN }

InitialRuleLists ==
    { <<a>> : a \in FirstRules } \cup { <<a, b>> : a \in FirstRules, b \in SecondRules }

Init ==
    /\ tz \in Zones
    /\ now = ClockStart
    /\ rng = 0
    /\ recurringTransactions \in InitialRuleLists
    /\ transactions = <<>>
    /\ calls = <<>>
    /\ txInput = <<>>
    /\ csvText = <<>>
    /\ parsed = <<>>
    /\ phase = "idle"
    /\ accounts = <<>>
    /\ view = <<>>
    /\ form = <<>>
    /\ handed = <<>>
    /\ editingTransaction = <<>>
    /\ disk = <<>>
    /\ saves = <<>>
    /\ modal = <<>>

\* Time passes: an hour or a day.
Tick ==
    /\ TicksTaken < MaxTicks
    /\ \E d \in {1, 24} : now' = now + d
    /\ UNCHANGED <<tz, rng, recurringTransactions, transactions, calls>>
    /\ UNCHANGED codecVars
    /\ UNCHANGED treeVars
    /\ UNCHANGED <<storeVars, diskVars>>

CallRecord(env, rulesIn, txsIn, res) ==
    [env |-> env,
     today |-> Today(env),
     rulesIn |-> rulesIn,
     txsIn |-> txsIn,
     newTransactions |-> res.newTransactions,
     updatedRecurring |-> res.updatedRecurring,
     rulesAfter |-> res.inputAfter,
     txsAfter |-> res.txsAfter]

\* What the effect does with the engine's result res.
AdoptResult(res) ==
    /\ calls' = Append(calls, CallRecord(Env, recurringTransactions, transactions, res))
    /\ rng' = res.rng
    /\ IF Len(res.newTransactions) > 0
       THEN /\ transactions' = res.newTransactions \o res.txsAfter
            /\ recurringTransactions' = res.updatedRecurring
       ELSE /\ transactions' = res.txsAfter
            /\ recurringTransactions' = res.inputAfter

\* The "Recurring Transactions Check" effect of App.
RecurringCheck ==
    /\ Len(calls) < MaxCalls
    /\ Len(recurringTransactions) > 0
    /\ AdoptResult(processDueRecurringTransactions(Env, recurringTransactions,
                                                   transactions))
    /\ UNCHANGED <<tz, now>>
    /\ UNCHANGED codecVars
    /\ UNCHANGED treeVars
    /\ UNCHANGED <<storeVars, diskVars>>

Next == Tick \/ RecurringCheck

Spec == Init /\ [][Next]_vars

\* The engine called again and again on one day, each call on the
\* updatedRecurring of the call before, the new transactions put before
\* the ones there are; MaxEmitted caps the number of transactions.
MaxEmitted == 30

FedBack(res) ==
    /\ rng' = res.rng
    /\ transactions' = res.newTransactions \o transactions
    /\ recurringTransactions' = res.updatedRecurring

CatchUpCall ==
    /\ Len(transactions) < MaxEmitted
    /\ \E res \in {processDueRecurringTransactions(Env, recurringTransactions,
                                                     transactions)} : FedBack(res)
    /\ UNCHANGED <<tz, now, calls>>
    /\ UNCHANGED codecVars
    /\ UNCHANGED treeVars
    /\ UNCHANGED <<storeVars, diskVars>>

SpecCatchUp == Init /\ [][CatchUpCall]_vars /\ WF_vars(CatchUpCall)

(***************************************************************************)
(* The App around the codec: the transactions in memory are written to     *)
(* Transaction.csv and the file is read back.                              *)
(***************************************************************************)
\* The characters a payee or a description is made of.
TextChars == {"a", ",", "\"", "\n"}

Texts == UNION { [1..n -> TextChars] : n \in 0..MaxText }

\* payee?: string, description: string as the forms leave them.
TextFields == Texts \cup {Undefined}

Posting(accountId, amount) == [accountId |-> accountId, amount |-> Num(amount)]

FirstTx(payee, description) ==
    [id |-> <<"t", "1">>, date |-> ISO(2024, 4, 1), createdAt |-> Num(20),
     payee |-> payee, description |-> description,
     splits |-> <<Posting(<<"a", "1">>, 5), Posting(<<"a", "2">>, -5)>>]

SecondTx(payee, description) ==
    [id |-> <<"t", "2">>, date |-> ISO(2024, 4, 2), createdAt |-> Num(10),
     payee |-> payee, description |-> description,
     splits |-> <<Posting(<<"a", "2">>, 7), Posting(<<"a", "3">>, -4),
                  Posting(<<"a", "1">>, -3)>>]

\* Lists of transactions with unique ids.
TransactionLists ==
    { <<FirstTx(p, d)>> : p \in TextFields, d \in TextFields }
    \cup { <<FirstTx(p, <<"a">>), SecondTx(<<"a">>, p)>> : p \in TextFields }
    \cup { <<SecondTx(p, <<>>), FirstTx(Undefined, <<"a", "a">>)>> :
               p \in TextFields }

InitCodec ==
    /\ tz \in {z \in Zones : z.name = "UTC"}
    /\ now = ClockStart
    /\ rng = 0
    /\ recurringTransactions = <<>>
    /\ transactions = <<>>
    /\ calls = <<>>
    /\ txInput \in TransactionLists
    /\ csvText = <<>>
    /\ parsed = <<>>
    /\ phase = "unsaved"
    /\ accounts = <<>>
    /\ view = <<>>
    /\ form = <<>>
    /\ handed = <<>>
    /\ editingTransaction = <<>>
    /\ disk = <<>>
    /\ saves = <<>>
    /\ modal = <<>>

\* adapter.write('Transaction.csv', serializeTransactionsToCSV(txs))
WriteTransactionCsv ==
    /\ phase = "unsaved"
    /\ csvText' = serializeTransactionsToCSV(txInput)
    /\ phase' = "saved"
    /\ UNCHANGED <<txInput, parsed>>
    /\ UNCHANGED engineVars
    /\ UNCHANGED treeVars
    /\ UNCHANGED <<storeVars, diskVars>>

\* The call either returns the transactions or stays in its loop for ever.
LoadOutcome(res) ==
    /\ parsed' = res
    /\ phase' = IF res.returns THEN "loaded" ELSE "loading"

\* if (txText) setTransactions(parseTransactionsFromCSV(txText))
ReadTransactionCsv ==
    /\ phase \in {"saved", "found"}
    /\ csvText # <<>>
    /\ \E res \in parseTransactionsFromCSV(csvText) : LoadOutcome(res)
    /\ UNCHANGED <<txInput, csvText>>
    /\ UNCHANGED engineVars
    /\ UNCHANGED treeVars
    /\ UNCHANGED <<storeVars, diskVars>>

NextCodec == WriteTransactionCsv \/ ReadTransactionCsv

SpecCodec == InitCodec /\ [][NextCodec]_vars

(***************************************************************************)
(* The App reading a Transaction.csv it finds in the vault: the file may   *)
(* have been written by hand or by another program.                        *)
(***************************************************************************)
CsvLine(fields) == Join(fields, <<",">>)

\* t1,2024-04-01,20,"a,""b""",d,a1,5
QuotedLine ==
    CsvLine(<< <<"t", "1">>, ISO(2024, 4, 1), <<"2", "0">>,
               <<"\"", "a">>, <<"\"", "\"", "b", "\"", "\"", "\"">>,
               <<"d">>, <<"a", "1">>, <<"5">> >>)

\* t2,2024-04-02,10,p,d,a2,-5
PlainLine ==
    CsvLine(<< <<"t", "2">>, ISO(2024, 4, 2), <<"1", "0">>, <<"p">>, <<"d">>,
               <<"a", "2">>, <<"-", "5">> >>)

\* t1,2024-04-09,99,q,e,a2,-5
SameIdLine ==
    CsvLine(<< <<"t", "1">>, ISO(2024, 4, 9), <<"9", "9">>, <<"q">>, <<"e">>,
               <<"a", "2">>, <<"-", "5">> >>)

\* t3,2024-04-03,30,p,d,a1,
EmptyAmountLine ==
    CsvLine(<< <<"t", "3">>, ISO(2024, 4, 3), <<"3", "0">>, <<"p">>, <<"d">>,
               <<"a", "1">>, <<>> >>)

\* t3,2024-04-03,30,p,d,a1,x
TextAmountLine ==
    CsvLine(<< <<"t", "3">>, ISO(2024, 4, 3), <<"3", "0">>, <<"p">>, <<"d">>,
               <<"a", "1">>, <<"x">> >>)

\* t4,2024-04-01,20,p
FourFieldLine ==
    CsvLine(<< <<"t", "4">>, ISO(2024, 4, 1), <<"2", "0">>, <<"p">> >>)

\* ,2024-04-01,20,p,d,a1,5
EmptyIdLine ==
    CsvLine(<< <<>>, ISO(2024, 4, 1), <<"2", "0">>, <<"p">>, <<"d">>,
               <<"a", "1">>, <<"5">> >>)

\* t5,2024-04-01,20,"p,d,a1,5
OpenQuoteLine ==
    CsvLine(<< <<"t", "5">>, ISO(2024, 4, 1), <<"2", "0">>, <<"\"", "p">>,
               <<"d">>, <<"a", "1">>, <<"5">> >>)

\* "t7,2024-04-01,20,p,d,a1,5
OpenQuoteIdLine ==
    CsvLine(<< <<"\"", "t", "7">>, ISO(2024, 4, 1), <<"2", "0">>, <<"p">>,
               <<"d">>, <<"a", "1">>, <<"5">> >>)

\* t6,2024-04-04,x,p,d,a1,5
TextCreatedAtLine ==
    CsvLine(<< <<"t", "6">>, ISO(2024, 4, 4), <<"x">>, <<"p">>, <<"d">>,
               <<"a", "1">>, <<"5">> >>)

BlankLine == <<" ", " ">>

DataLines ==
    { QuotedLine, PlainLine, SameIdLine, EmptyAmountLine, TextAmountLine,
      FourFieldLine, EmptyIdLine, OpenQuoteLine, OpenQuoteIdLine,
      TextCreatedAtLine, BlankLine }

\* The files: the header row and up to MaxRows data lines.
CsvFile(rows) == HeaderRow \o <<"\n">> \o Join(rows, <<"\n">>)

CsvFiles ==
    { CsvFile(rows) : rows \in UNION { [1..n -> DataLines] : n \in 1..MaxRows } }

InitLoad ==
    /\ tz \in {z \in Zones : z.name = "UTC"}
    /\ now = ClockStart
    /\ rng = 0
    /\ recurringTransactions = <<>>
    /\ transactions = <<>>
    /\ calls = <<>>
    /\ txInput = <<>>
    /\ csvText \in CsvFiles
    /\ parsed = <<>>
    /\ phase = "found"
    /\ accounts = <<>>
    /\ view = <<>>
    /\ form = <<>>
    /\ handed = <<>>
    /\ editingTransaction = <<>>
    /\ disk = <<>>
    /\ saves = <<>>
    /\ modal = <<>>

NextLoad == ReadTransactionCsv

SpecLoad == InitLoad /\ [][NextLoad]_vars

(***************************************************************************)
(* The App around the accounts: Accounts.json and Transaction.csv are      *)
(* loaded, accounts are added and renamed, and every state change renders  *)
(* the tree, the paths and the balances again.                             *)
(***************************************************************************)
Account(id, parentId, name) == [id |-> id, parentId |-> parentId, name |-> name]

IdLetters == <<"a", "b", "c", "d", "e">>

NameLetters == <<"A", "B", "C", "D", "E">>

\* The parentId values of a hand-edited file of n accounts: none, any of
\* the n ids (the account's own included), an id of no account.
ParentChoices(n) == {Null, <<"z">>} \cup {<<IdLetters[k]>> : k \in 1..n}

AccountsWith(n, parents) ==
    [k \in 1..n |-> Account(<<IdLetters[k]>>, parents[k], <<NameLetters[k]>>)]

\* Accounts nested deeper than the path walk goes.
DeepChain ==
    [k \in 1..(MaxPathDepth + 2) |->
        Account(<<"n">> \o NatToStr(k),
                IF k = 1 THEN Null ELSE <<"n">> \o NatToStr(k - 1),
                <<"N">> \o NatToStr(k))]

AccountLists ==
    UNION { { AccountsWith(n, parents) : parents \in [1..n -> ParentChoices(n)] } :
              n \in 1..MaxAccounts }
    \cup {DeepChain}

LedgerTx(id, createdAt, splits) ==
    [id |-> id, date |-> ISO(2024, 4, 1), createdAt |-> createdAt,
     payee |-> <<"p">>, description |-> <<"d">>, splits |-> splits]

LedgerSplit(accountId, amount) == [accountId |-> accountId, amount |-> amount]

Ledgers ==
    { << LedgerTx(<<"t", "1">>, 1, <<LedgerSplit(<<"b">>, 100)>>) >>,
      << LedgerTx(<<"t", "1">>, 2, <<LedgerSplit(<<"a">>, 5), LedgerSplit(<<"b">>, -5)>>),
         LedgerTx(<<"t", "2">>, 1, <<LedgerSplit(<<"b">>, 7), LedgerSplit(<<"c">>, -4),
                                     LedgerSplit(<<"z">>, -3)>>) >>,
      << LedgerTx(<<"t", "3">>, 1, <<LedgerSplit(<<"n", "2", "2">>, 9),
                                     LedgerSplit(<<"n", "1">>, -9)>>) >> }

\* The ids a view asks the descendants of: the account shown, its direct
\* children, the account the journal is filtered by (which may have been
\* kept from an earlier account list).
FilterChoices(accs) == AccountIds(accs) \cup {<<"z">>}

\* What a render derives: treeRoots (App), the rows of getFlattenedBalances
\* (dashboard, reports), the fullPath of every account (forms) and the
\* descendant ids of a branch (dashboard, journal, reports).
RenderView(accs, txs) ==
    [treeRoots |-> buildAccountTree(accs),
     balances |-> getFlattenedBalances(accs, txs),
     paths |-> [k \in 1..Len(accs) |-> getAccountPath(accs[k], accs)],
     descendants |-> [id \in FilterChoices(accs) |->
                         getDescendantAccountIds(id, accs)]]

InitLedger ==
    /\ tz \in {z \in Zones : z.name = "UTC"}
    /\ now = ClockStart
    /\ rng = 0
    /\ recurringTransactions = <<>>
    /\ transactions = <<>>
    /\ calls = <<>>
    /\ txInput = <<>>
    /\ csvText = <<>>
    /\ parsed = <<>>
    /\ phase = "mounted"
    /\ accounts = <<>>
    /\ view = RenderView(<<>>, <<>>)
    /\ form = <<>>
    /\ handed = <<>>
    /\ editingTransaction = <<>>
    /\ disk = <<>>
    /\ saves = <<>>
    /\ modal = <<>>

\* loadData: setAccounts(JSON.parse(accText)), setTransactions(...)
LoadData ==
    /\ phase = "mounted"
    /\ \E accs \in AccountLists, txs \in Ledgers :
          /\ accounts' = accs
          /\ transactions' = txs
          /\ view' = RenderView(accs, txs)
    /\ phase' = "ready"
    /\ UNCHANGED <<tz, now, rng, recurringTransactions, calls>>
    /\ UNCHANGED <<txInput, csvText, parsed>>
    /\ UNCHANGED <<storeVars, diskVars>>

SetAccounts(updatedAccounts) ==
    /\ accounts' = updatedAccounts
    /\ view' = RenderView(updatedAccounts, transactions)

\* handleAddAccount(parentId, name, type, budget): the parent is an account
\* shown in the tree.
HandleAddAccount ==
    /\ phase = "ready"
    /\ Len(accounts) < MaxAccounts
    /\ \E k \in 1..Len(accounts) :
          SetAccounts(Append(accounts,
                             Account(generateId(rng), accounts[k].id, <<"N">>)))
    /\ rng' = rng + 1
    /\ UNCHANGED <<tz, now, recurringTransactions, transactions, calls>>
    /\ UNCHANGED codecVars
    /\ UNCHANGED <<storeVars, diskVars>>

\* accounts.map(acc => acc.id === accountId ? {...acc, name: newName, ...} : acc)
Renamed(accs, accountId, newName) ==
    [k \in 1..Len(accs) |->
        IF accs[k].id = accountId THEN [accs[k] EXCEPT !.name = newName]
        ELSE accs[k]]

\* handleUpdateAccount(accountId, newName, newBudget)
HandleUpdateAccount ==
    /\ phase = "ready"
    /\ \A k \in 1..Len(accounts) : accounts[k].name # <<"X">>   \* one rename
    /\ \E k \in 1..Len(accounts) :
          SetAccounts(Renamed(accounts, accounts[k].id, <<"X">>))
    /\ UNCHANGED <<tz, now, rng, recurringTransactions, transactions, calls>>
    /\ UNCHANGED codecVars
    /\ UNCHANGED <<storeVars, diskVars>>

NextLedger == LoadData \/ HandleAddAccount \/ HandleUpdateAccount

SpecLedger == InitLedger /\ [][NextLedger]_vars

(***************************************************************************)
(* TransactionForm and RecurringManager: the state of the form, the        *)
(* handlers that edit it and handleSubmit.  Amount texts hold a sign and   *)
(* digits; sums are over integers, so |total| < 0.01 is total = 0.         *)
(***************************************************************************)
MaxLines == 3

TypedAccount(id, name, type) ==
    [id |-> id, parentId |-> Null, name |-> name, type |-> type]

\* The leading digits of a text.
RECURSIVE DigitPrefix(_)
DigitPrefix(s) ==
    IF s = <<>> \/ ~IsDigit(Head(s)) THEN <<>>
    ELSE <<Head(s)>> \o DigitPrefix(Tail(s))

SignedNumber(sign, digits) ==
    IF digits = <<>> THEN NaN ELSE Num(sign * DigitsToNat(digits))

\* parseFloat(text): the longest numeric prefix, NaN when there is none.
ParseFloat(s) ==
    IF s # <<>> /\ Head(s) = "-" THEN SignedNumber(-1, DigitPrefix(Tail(s)))
    ELSE SignedNumber(1, DigitPrefix(s))

\* x || 0 on a number: NaN and 0 give 0.
OrZero(x) == IF x = NaN THEN 0 ELSE x[1]

\* amount.toString() of an integer.
AmountToString(n) == IF n < 0 THEN <<"-">> \o NatToStr(-n) ELSE NatToStr(n)

FormSplit(accountId, amount) == [accountId |-> accountId, amount |-> amount]

BlankSplits == <<FormSplit(<<>>, <<>>), FormSplit(<<>>, <<>>)>>

NoForm == [kind |-> "none"]

\* The state a TransactionForm mounts with (TransactionForm.tsx:23-46).
BlankForm(today, initialData) ==
    [kind |-> "transaction", mode |-> "expense", date |-> today,
     payee |-> <<>>, description |-> <<>>, amount |-> <<>>,
     primaryAccountId |-> <<>>, fundingAccountId |-> <<>>,
     splits |-> BlankSplits, initialData |-> initialData]

\* splits.find(s => s.amount > 0), splits.find(s => s.amount < 0): the
\* index of the first match, 0 when there is none.
FindDebit(splits) ==
    IF \E k \in 1..Len(splits) : splits[k].amount > 0
    THEN CHOOSE k \in 1..Len(splits) :
             splits[k].amount > 0 /\ \A j \in 1..(k - 1) : ~(splits[j].amount > 0)
    ELSE 0

FindCredit(splits) ==
    IF \E k \in 1..Len(splits) : splits[k].amount < 0
    THEN CHOOSE k \in 1..Len(splits) :
             splits[k].amount < 0 /\ \A j \in 1..(k - 1) : ~(splits[j].amount < 0)
    ELSE 0

\* accounts.find(a => a.id === id)?.type
TypeOf(accs, id) ==
    IF FindIndexById(accs, id) = 0 THEN "undefined"
    ELSE accs[FindIndexById(accs, id)].type

\* The tab chosen for a transaction of one debit and one credit split.
ModeFor(debitType, creditType) ==
    IF debitType = "Expense" THEN "expense"
    ELSE IF creditType \in {"Income", "Equity"} THEN "income"
    ELSE IF debitType \in {"Asset", "Liability"} /\ creditType \in {"Asset", "Liability"}
         THEN "transfer"
    ELSE "journal"

\* if (hasTwoSplits && debitSplit && creditSplit) { ... }
SimpleEdit(accs, base, debitSplit, creditSplit) ==
    [base EXCEPT !.amount = AmountToString(debitSplit.amount),
                 !.primaryAccountId = debitSplit.accountId,
                 !.fundingAccountId = creditSplit.accountId,
                 !.mode = ModeFor(TypeOf(accs, debitSplit.accountId),
                                  TypeOf(accs, creditSplit.accountId))]

\* else: complex splits -> journal mode
JournalEdit(base, splits) ==
    [base EXCEPT !.mode = "journal",
                 !.splits = [k \in 1..Len(splits) |->
                                FormSplit(splits[k].accountId,
                                          AmountToString(splits[k].amount))]]

EditWith(accs, base, splits, d, c) ==
    IF Len(splits) = 2 /\ d # 0 /\ c # 0
    THEN SimpleEdit(accs, base, splits[d], splits[c])
    ELSE JournalEdit(base, splits)

\* The effect "Initialize Data if Editing" for a given initialData.
InitializeForm(accs, today, tx) ==
    EditWith(accs,
             [BlankForm(today, <<tx>>) EXCEPT !.date = tx.date,
                                          !.payee = OrEmpty(tx.payee),
                                          !.description = OrEmpty(tx.description)],
             tx.splits, FindDebit(tx.splits), FindCredit(tx.splits))

\* getDebitOptions, getCreditOptions: the ids a select offers.
DebitTypes(mode) ==
    IF mode = "expense" THEN {"Expense"}
    ELSE IF mode \in {"income", "transfer"} THEN {"Asset", "Liability"}
    ELSE {"Asset", "Liability", "Income", "Expense", "Equity"}

CreditTypes(mode) ==
    IF mode = "income" THEN {"Income", "Equity"} ELSE {"Asset", "Liability"}

OptionIds(accs, types) ==
    {accs[k].id : k \in {j \in 1..Len(accs) : accs[j].type \in types}}

\* const total = splits.reduce((sum, s) => sum + (parseFloat(s.amount) || 0), 0)
RECURSIVE Total(_)
Total(splits) ==
    IF splits = <<>> THEN 0
    ELSE OrZero(ParseFloat(Head(splits).amount)) + Total(Tail(splits))

\* const isBalanced = Math.abs(total) < 0.01
isBalanced(splits) == Total(splits) = 0

\* splits.filter(s => s.accountId !== '').map(s => ({...}))
JournalSplits(splits) ==
    [k \in 1..Len(SelectSeq(splits, LAMBDA s : s.accountId # <<>>)) |->
        LedgerSplit(SelectSeq(splits, LAMBDA s : s.accountId # <<>>)[k].accountId,
                    OrZero(ParseFloat(
                        SelectSeq(splits, LAMBDA s : s.accountId # <<>>)[k].amount)))]

\* finalSplits of the expense, income and transfer modes
SimpleSplits(f, numAmount) ==
    <<LedgerSplit(f.primaryAccountId, numAmount),
      LedgerSplit(f.fundingAccountId, -numAmount)>>

\* handleSubmit returns before onSave.
SubmitReturnsEarly(f) ==
    IF f.mode = "journal" THEN ~isBalanced(f.splits)
    ELSE \/ OrZero(ToNumber(f.amount)) = 0
         \/ f.primaryAccountId = <<>>
         \/ f.fundingAccountId = <<>>

FinalSplits(f) ==
    IF f.mode = "journal" THEN JournalSplits(f.splits)
    ELSE SimpleSplits(f, OrZero(ToNumber(f.amount)))

\* payee || undefined
OrUndefined(s) == IF s = <<>> THEN Undefined ELSE s

\* const newTx: Transaction = {...}
FormTx(f, id, createdAt) ==
    [id |-> IF f.initialData # <<>> THEN f.initialData[1].id ELSE id,
     date |-> f.date,
     payee |-> OrUndefined(f.payee),
     description |-> OrUndefined(f.description),
     splits |-> FinalSplits(f),
     createdAt |-> IF f.initialData # <<>> THEN f.initialData[1].createdAt
                   ELSE createdAt]

\* saveToDiskInternal(txs, recs, accs) up to its first await: the call is
\* running, inside the first of its three adapter.write calls.
StartSave(txs, recs, accs) ==
    saves' = Append(saves, [file |-> 1, step |-> "exists",
                            txs |-> txs, recs |-> recs, accs |-> accs])

SetTransactions(updatedTransactions) ==
    /\ transactions' = updatedTransactions
    /\ view' = RenderView(accounts, updatedTransactions)

\* updatedTransactions of handleSaveTransaction; editing is the App's
\* editingTransaction.
UpdatedTransactions(txs, editing, tx) ==
    IF editing # <<>>
    THEN [k \in 1..Len(txs) |-> IF txs[k].id = tx.id THEN tx ELSE txs[k]]
    ELSE <<tx>> \o txs

SaveUpdated(updatedTransactions) ==
    /\ SetTransactions(updatedTransactions)
    /\ editingTransaction' = <<>>
    /\ form' = NoForm
    /\ StartSave(updatedTransactions, recurringTransactions, accounts)

\* App.handleSaveTransaction(tx), the onSave of the form
handleSaveTransaction(tx) ==
    SaveUpdated(UpdatedTransactions(transactions, editingTransaction, tx))

\* The accounts the forms offer, one of each kind used by the tabs.
FormAccounts ==
    <<TypedAccount(<<"a">>, <<"A">>, "Asset"),
      TypedAccount(<<"e">>, <<"E">>, "Expense"),
      TypedAccount(<<"i">>, <<"I">>, "Income")>>

\* Transactions of the store that can be edited: an expense, and one read
\* from a Transaction.csv row with an empty Amount.
StoredTransactions ==
    <<LedgerTx(<<"t", "1">>, 2, <<LedgerSplit(<<"e">>, 5), LedgerSplit(<<"a">>, -5)>>),
      LedgerTx(<<"t", "3">>, 1, <<LedgerSplit(<<"a">>, 0)>>)>>

StoredRules ==
    <<Rule(<<"r", "1">>, <<"G", "y", "m">>, <<"F", "e", "e">>,
           <<"e">>, <<"a">>, 5, "monthly", ISO(2024, 4, 3), TRUE)>>

\* What a user types into an amount field.
AmountTexts == {<<>>, <<"5">>, <<"-", "5">>}

NumberInputs == {<<>>, <<"5">>}

\* What a user picks in the account select of a journal line.
JournalChoices == {<<>>, <<"a">>}

Modes == {"expense", "income", "transfer", "journal"}

InitForm ==
    /\ tz \in {z \in Zones : z.name = "UTC"}
    /\ now = ClockStart
    /\ rng = 0
    /\ recurringTransactions = StoredRules
    /\ transactions = StoredTransactions
    /\ calls = <<>>
    /\ txInput = <<>>
    /\ csvText = <<>>
    /\ parsed = <<>>
    /\ phase = "ready"
    /\ accounts = FormAccounts
    /\ view = RenderView(FormAccounts, StoredTransactions)
    /\ form = NoForm
    /\ handed = <<>>
    /\ editingTransaction = <<>>
    /\ disk = <<>>
    /\ saves = <<>>
    /\ modal = <<>>

FormFrame ==
    /\ UNCHANGED <<tz, now, rng, recurringTransactions, transactions, calls>>
    /\ UNCHANGED <<txInput, csvText, parsed, phase>>
    /\ UNCHANGED treeVars
    /\ UNCHANGED <<handed, disk, saves, modal>>

\* The "New Transaction" button: setEditingTransaction(null), setShowTxForm(true)
OpenTransactionForm ==
    /\ phase = "ready" /\ form = NoForm
    /\ form' = BlankForm(ToISODate(now), <<>>)
    /\ editingTransaction' = <<>>
    /\ FormFrame

\* handleEditTransaction(tx) and the form's initialisation from initialData
HandleEditTransaction ==
    /\ phase = "ready" /\ form = NoForm
    /\ \E k \in 1..Len(transactions) :
          /\ editingTransaction' = <<transactions[k]>>
          /\ form' = InitializeForm(accounts, ToISODate(now), transactions[k])
    /\ FormFrame

\* setMode(m) and the effect "Reset fields when switching modes"
SetMode ==
    /\ form.kind = "transaction"
    /\ \E m \in Modes \ {form.mode} :
          form' = IF form.initialData = <<>>
                  THEN [form EXCEPT !.mode = m, !.amount = <<>>,
                                    !.primaryAccountId = <<>>,
                                    !.fundingAccountId = <<>>,
                                    !.splits = BlankSplits]
                  ELSE [form EXCEPT !.mode = m]
    /\ UNCHANGED editingTransaction
    /\ FormFrame

SetAmount ==
    /\ form.kind = "transaction" /\ form.mode # "journal"
    /\ \E value \in NumberInputs : form' = [form EXCEPT !.amount = value]
    /\ UNCHANGED editingTransaction
    /\ FormFrame

SetPrimaryAccountId ==
    /\ form.kind = "transaction" /\ form.mode # "journal"
    /\ \E value \in {<<>>} \cup OptionIds(accounts, DebitTypes(form.mode)) :
          form' = [form EXCEPT !.primaryAccountId = value]
    /\ UNCHANGED editingTransaction
    /\ FormFrame

SetFundingAccountId ==
    /\ form.kind = "transaction" /\ form.mode # "journal"
    /\ \E value \in {<<>>} \cup OptionIds(accounts, CreditTypes(form.mode)) :
          form' = [form EXCEPT !.fundingAccountId = value]
    /\ UNCHANGED editingTransaction
    /\ FormFrame

\* /^[-0-9.]*$/.test(value)
AmountPattern(value) ==
    \A k \in 1..Len(value) : IsDigit(value[k]) \/ value[k] \in {"-", "."}

\* handleSplitChange(index, field, value)
HandleSplitChange ==
    /\ form.kind = "transaction" /\ form.mode = "journal"
    /\ \E index \in 1..Len(form.splits) :
          \/ \E value \in AmountTexts \cup {<<"x">>} :
                form' = IF AmountPattern(value)
                        THEN [form EXCEPT !.splits[index].amount = value]
                        ELSE form
          \/ \E value \in JournalChoices \cap
                           ({<<>>} \cup OptionIds(accounts, DebitTypes("journal"))) :
                form' = [form EXCEPT !.splits[index].accountId = value]
    /\ UNCHANGED editingTransaction
    /\ FormFrame

AddSplit ==
    /\ form.kind = "transaction" /\ form.mode = "journal"
    /\ Len(form.splits) < MaxLines
    /\ form' = [form EXCEPT !.splits = Append(@, FormSplit(<<>>, <<>>))]
    /\ UNCHANGED editingTransaction
    /\ FormFrame

\* removeSplit(index): only while more than two lines are left
RemoveSplit ==
    /\ form.kind = "transaction" /\ form.mode = "journal"
    /\ Len(form.splits) > 2
    /\ \E index \in 1..Len(form.splits) :
          form' = [form EXCEPT !.splits =
                      SubSeq(@, 1, index - 1) \o SubSeq(@, index + 1, Len(@))]
    /\ UNCHANGED editingTransaction
    /\ FormFrame

Handed(callback, value) == [callback |-> callback, value |-> value]

\* TransactionForm.handleSubmit, with App.handleSaveTransaction as onSave
HandleSubmit ==
    /\ form.kind = "transaction"
    /\ ~SubmitReturnsEarly(form)
    /\ handed' = Append(handed, Handed("onSave", FormTx(form, generateId(rng), now)))
    /\ handleSaveTransaction(FormTx(form, generateId(rng), now))
    /\ rng' = IF form.initialData = <<>> THEN rng + 1 ELSE rng
    /\ phase' = "saved"
    /\ UNCHANGED <<tz, now, recurringTransactions, calls>>
    /\ UNCHANGED <<txInput, csvText, parsed>>
    /\ UNCHANGED <<accounts, disk, modal>>

\* RecurringManager: resetForm() and setIsFormOpen(true)
BlankRecurringForm(today) ==
    [kind |-> "recurring", payee |-> <<>>, description |-> <<>>,
     amount |-> <<>>, frequency |-> "monthly", startDate |-> today,
     fromAccount |-> <<>>, toAccount |-> <<>>, editingId |-> <<>>]

OpenRecurringForm ==
    /\ phase = "ready" /\ form = NoForm
    /\ form' = BlankRecurringForm(ToISODate(now))
    /\ UNCHANGED editingTransaction
    /\ FormFrame

\* handleEdit(rt) with debitSplit and creditSplit found
RecurringEdit(rt, debitSplit, creditSplit) ==
    [kind |-> "recurring", payee |-> rt.payee, description |-> rt.description,
     amount |-> AmountToString(IF debitSplit.amount < 0 THEN -debitSplit.amount
                               ELSE debitSplit.amount),
     frequency |-> rt.frequency, startDate |-> rt.nextDueDate,
     fromAccount |-> creditSplit.accountId, toAccount |-> debitSplit.accountId,
     editingId |-> <<rt.id>>]

HandleEditRecurring ==
    /\ phase = "ready" /\ form = NoForm
    /\ \E k \in 1..Len(recurringTransactions) :
          /\ FindDebit(recurringTransactions[k].splits) # 0
          /\ FindCredit(recurringTransactions[k].splits) # 0
          /\ form' = RecurringEdit(recurringTransactions[k],
                        recurringTransactions[k].splits[
                            FindDebit(recurringTransactions[k].splits)],
                        recurringTransactions[k].splits[
                            FindCredit(recurringTransactions[k].splits)])
    /\ UNCHANGED editingTransaction
    /\ FormFrame

SetRecurringAmount ==
    /\ form.kind = "recurring"
    /\ \E value \in NumberInputs : form' = [form EXCEPT !.amount = value]
    /\ UNCHANGED editingTransaction
    /\ FormFrame

SetFromAccount ==
    /\ form.kind = "recurring"
    /\ \E value \in {<<>>} \cup AccountIds(accounts) :
          form' = [form EXCEPT !.fromAccount = value]
    /\ UNCHANGED editingTransaction
    /\ FormFrame

SetToAccount ==
    /\ form.kind = "recurring"
    /\ \E value \in {<<>>} \cup AccountIds(accounts) :
          form' = [form EXCEPT !.toAccount = value]
    /\ UNCHANGED editingTransaction
    /\ FormFrame

\* const ruleData: RecurringTransaction = {...}
RuleData(f, id) ==
    Rule(IF f.editingId # <<>> THEN f.editingId[1] ELSE id,
         f.payee, f.description, f.toAccount, f.fromAccount,
         OrZero(ToNumber(f.amount)), f.frequency, f.startDate, TRUE)

\* App.handleAddRecurring(rt), App.handleUpdateRecurring(rt)
UpdatedRecurring(recs, f, rt) ==
    IF f.editingId # <<>>
    THEN [k \in 1..Len(recs) |-> IF recs[k].id = rt.id THEN rt ELSE recs[k]]
    ELSE Append(recs, rt)

SaveRecurring(updated) ==
    /\ recurringTransactions' = updated
    /\ StartSave(transactions, updated, accounts)

\* RecurringManager.handleSubmit, with the App's handlers as onAdd and
\* onUpdate; resetForm() closes the form.
HandleSubmitRecurring ==
    /\ form.kind = "recurring"
    /\ form.amount # <<>> /\ form.fromAccount # <<>> /\ form.toAccount # <<>>
    /\ handed' = Append(handed,
                        Handed(IF form.editingId # <<>> THEN "onUpdate" ELSE "onAdd",
                               RuleData(form, generateId(rng))))
    /\ SaveRecurring(UpdatedRecurring(recurringTransactions, form,
                                      RuleData(form, generateId(rng))))
    /\ form' = NoForm
    /\ rng' = IF form.editingId = <<>> THEN rng + 1 ELSE rng
    /\ phase' = "saved"
    /\ UNCHANGED <<tz, now, transactions, calls>>
    /\ UNCHANGED <<txInput, csvText, parsed>>
    /\ UNCHANGED treeVars
    /\ UNCHANGED <<editingTransaction, disk, modal>>

NextForm ==
    \/ OpenTransactionForm \/ HandleEditTransaction \/ SetMode \/ SetAmount
    \/ SetPrimaryAccountId \/ SetFundingAccountId \/ HandleSplitChange
    \/ AddSplit \/ RemoveSplit \/ HandleSubmit
    \/ OpenRecurringForm \/ HandleEditRecurring \/ SetRecurringAmount
    \/ SetFromAccount \/ SetToAccount \/ HandleSubmitRecurring

SpecForm == InitForm /\ [][NextForm]_vars

(***************************************************************************)
(* The App as a store with files behind it: its transaction handlers, the  *)
(* confirm dialog, saveToDiskInternal with the awaits of the vault         *)
(* adapter, the New Transaction command of the plugin and the reload it    *)
(* asks for.  A file is [exists, content, by]: by is the number of the     *)
(* save that wrote it last (0: none of them).                              *)
(***************************************************************************)
MaxSaves == 2

\* JSON.stringify(value, null, 2) / JSON.parse(text) of plain data: the
\* text is kept as the value it denotes.
JSONStringify(value) == [json |-> value]

JSONParse(text) == text.json

\* The numbers of a transaction as the codec holds them, and back.
BoxedSplits(splits) ==
    [k \in 1..Len(splits) |->
        [accountId |-> splits[k].accountId, amount |-> Num(splits[k].amount)]]

Boxed(txs) ==
    [k \in 1..Len(txs) |->
        [txs[k] EXCEPT !.createdAt = Num(txs[k].createdAt),
                       !.splits = BoxedSplits(txs[k].splits)]]

Unbox(x) == IF x = NaN THEN x ELSE x[1]

UnboxedSplits(splits) ==
    [k \in 1..Len(splits) |->
        [accountId |-> splits[k].accountId, amount |-> Unbox(splits[k].amount)]]

Unboxed(txs) ==
    [k \in 1..Len(txs) |->
        [txs[k] EXCEPT !.createdAt = Unbox(txs[k].createdAt),
                       !.splits = UnboxedSplits(txs[k].splits)]]

File(content, by) == [exists |-> TRUE, content |-> content, by |-> by]

\* The three files as one save leaves them.
FilesOf(txs, recs, accs, by) ==
    [accounts |-> File(JSONStringify(accs), by),
     transactions |-> File(serializeTransactionsToCSV(Boxed(txs)), by),
     recurring |-> File(JSONStringify(recs), by)]

FileNames == <<"accounts", "transactions", "recurring">>

\* The argument of the k-th adapter.write of a save.
ContentOf(save, k) == FilesOf(save.txs, save.recs, save.accs, 0)[FileNames[k]].content

\* adapter.write: const fileExists = await this.vault.adapter.exists(path)
FileExistsChecked ==
    /\ \E i \in 1..Len(saves) :
          /\ saves[i].step = "exists"
          /\ saves' = [saves EXCEPT ![i].step =
                          IF disk[FileNames[saves[i].file]].exists
                          THEN "overwrite" ELSE "create"]
    /\ UNCHANGED <<tz, now, rng, recurringTransactions, transactions, calls>>
    /\ UNCHANGED codecVars
    /\ UNCHANGED treeVars
    /\ UNCHANGED <<storeVars, disk, modal>>

\* What a save does after one of its writes has returned.
AfterWrite(save) ==
    IF save.file = Len(FileNames) THEN [save EXCEPT !.step = "done"]
    ELSE [save EXCEPT !.file = @ + 1, !.step = "exists"]

\* vault.create(path, content) throws when the file is there by now; the
\* catch of saveToDiskInternal logs it and the save ends.
CreateFails(save) == save.step = "create" /\ disk[FileNames[save.file]].exists

\* await this.vault.adapter.write(path, content) / this.vault.create(...)
FileWritten ==
    /\ \E i \in 1..Len(saves) :
          /\ saves[i].step \in {"overwrite", "create"}
          /\ IF CreateFails(saves[i])
             THEN /\ saves' = [saves EXCEPT ![i].step = "failed"]
                  /\ UNCHANGED disk
             ELSE /\ saves' = [saves EXCEPT ![i] = AfterWrite(saves[i])]
                  /\ disk' = [disk EXCEPT ![FileNames[saves[i].file]] =
                                 File(ContentOf(saves[i], saves[i].file), i)]
    /\ UNCHANGED <<tz, now, rng, recurringTransactions, transactions, calls>>
    /\ UNCHANGED codecVars
    /\ UNCHANGED treeVars
    /\ UNCHANGED <<storeVars, modal>>

\* The accounts of the store: a nested account and one whose parent is
\* gone.
StoreAccounts ==
    <<TypedAccount(<<"a">>, <<"A">>, "Asset"),
      TypedAccount(<<"e">>, <<"E">>, "Expense"),
      [TypedAccount(<<"f">>, <<"F">>, "Expense") EXCEPT !.parentId = <<"e">>],
      [TypedAccount(<<"o">>, <<"O">>, "Expense") EXCEPT !.parentId = <<"z">>]>>

FirstLedger ==
    <<LedgerTx(<<"t", "1">>, 1, <<LedgerSplit(<<"f">>, 5), LedgerSplit(<<"a">>, -5)>>)>>

\* The journal lines a user fills in before submitting: balanced over
\* three lines and, in a new transaction, also with the account of one
\* line left open.
LineFillings(initialData) ==
    { <<FormSplit(<<"f">>, <<"3">>), FormSplit(<<"o">>, <<"2">>),
        FormSplit(<<"a">>, <<"-", "5">>)>> }
    \cup IF initialData # <<>> THEN {}
         ELSE { <<FormSplit(<<"a">>, <<"5">>), FormSplit(<<>>, <<"-", "5">>)>> }

Fillings(f) ==
    {[f EXCEPT !.mode = "journal", !.splits = lines] : lines \in LineFillings(f.initialData)}

\* What is entered in the modal of the command.
ModalLines == <<FormSplit(<<"e">>, <<"7">>), FormSplit(<<"a">>, <<"-", "7">>)>>

ModalFilling(f) == [f EXCEPT !.mode = "journal", !.splits = ModalLines]

MaxCommands == 1

\* The modal of the command: closed, or open on what it read; changed
\* while the event it dispatched is not handled yet; used counts its
\* invocations.
ModalClosed(changed, used) == [open |-> FALSE, changed |-> changed, used |-> used]

InitStore ==
    /\ tz \in {z \in Zones : z.name = "UTC"}
    /\ now = ClockStart
    /\ rng = 0
    /\ recurringTransactions = <<>>
    /\ transactions = FirstLedger
    /\ calls = <<>>
    /\ txInput = <<>>
    /\ csvText = <<>>
    /\ parsed = <<>>
    /\ phase = "ready"
    /\ accounts = StoreAccounts
    /\ view = RenderView(StoreAccounts, FirstLedger)
    /\ form = NoForm
    /\ handed = <<>>
    /\ editingTransaction = <<>>
    /\ disk = FilesOf(FirstLedger, <<>>, StoreAccounts, 0)
    /\ saves = <<>>
    /\ modal = ModalClosed(FALSE, 0)

\* The user fills the open form and submits it: TransactionForm.handleSubmit
\* with App.handleSaveTransaction as onSave.
SubmitFilledForm ==
    /\ form.kind = "transaction"
    /\ Len(saves) < MaxSaves
    /\ \E f \in Fillings(form) :
          /\ ~SubmitReturnsEarly(f)
          /\ handed' = Append(handed, Handed("onSave", FormTx(f, generateId(rng), now)))
          /\ handleSaveTransaction(FormTx(f, generateId(rng), now))
    /\ rng' = IF form.initialData = <<>> THEN rng + 1 ELSE rng
    /\ UNCHANGED <<tz, now, recurringTransactions, calls>>
    /\ UNCHANGED codecVars
    /\ UNCHANGED <<accounts, disk, modal>>

\* handleDeleteTransaction(id): the dialog opens with an onConfirm that
\* closes over the state of this render.
ConfirmDialog(id, txs, recs, accs) ==
    [kind |-> "confirm", id |-> id, transactions |-> txs,
     recurringTransactions |-> recs, accounts |-> accs]

HandleDeleteTransaction ==
    /\ phase = "ready" /\ form = NoForm
    /\ \E k \in 1..Len(transactions) :
          form' = ConfirmDialog(transactions[k].id, transactions,
                                recurringTransactions, accounts)
    /\ UNCHANGED editingTransaction
    /\ FormFrame

DeleteUpdated(updatedTransactions, recs, accs) ==
    /\ SetTransactions(updatedTransactions)
    /\ StartSave(updatedTransactions, recs, accs)

\* onConfirm of the delete dialog
ConfirmDelete ==
    /\ form.kind = "confirm"
    /\ Len(saves) < MaxSaves
    /\ DeleteUpdated(SelectSeq(form.transactions, LAMBDA t : t.id # form.id),
                     form.recurringTransactions, form.accounts)
    /\ handed' = Append(handed, Handed("onConfirm", form.id))
    /\ form' = NoForm
    /\ UNCHANGED <<tz, now, rng, recurringTransactions, calls>>
    /\ UNCHANGED codecVars
    /\ UNCHANGED <<accounts, editingTransaction, disk, modal>>

\* The command "New Transaction" of the plugin: the files are read and the
\* modal opens on what they hold.
ModalOn(accs, res, used) ==
    [open |-> TRUE, changed |-> FALSE, used |-> used, accounts |-> accs,
     transactions |-> Unboxed(res.txs)]

NewTransactionCommand ==
    /\ ~modal.open /\ ~modal.changed
    /\ modal.used < MaxCommands
    /\ \E res \in parseTransactionsFromCSV(disk.transactions.content) :
          /\ res.returns
          /\ modal' = ModalOn(JSONParse(disk.accounts.content), res, modal.used + 1)
    /\ UNCHANGED <<tz, now, rng, recurringTransactions, transactions, calls>>
    /\ UNCHANGED codecVars
    /\ UNCHANGED treeVars
    /\ UNCHANGED <<storeVars, disk, saves>>

\* The onSave of the modal: [newTx, ...transactions] is written and the
\* event 'ledger-flow:data-changed' is dispatched.
ModalSave ==
    /\ modal.open
    /\ ~SubmitReturnsEarly(ModalFilling(BlankForm(ToISODate(now), <<>>)))
    /\ disk' = [disk EXCEPT !.transactions =
                   File(serializeTransactionsToCSV(
                            Boxed(<<FormTx(ModalFilling(BlankForm(ToISODate(now), <<>>)),
                                           generateId(rng), now)>>
                                  \o modal.transactions)), 0)]
    /\ rng' = rng + 1
    /\ modal' = ModalClosed(TRUE, modal.used)
    /\ UNCHANGED <<tz, now, recurringTransactions, transactions, calls>>
    /\ UNCHANGED codecVars
    /\ UNCHANGED treeVars
    /\ UNCHANGED <<storeVars, saves>>

\* handleRefresh: loadData reads the three files into the state.
Reloaded(accs, res, recs) ==
    /\ accounts' = accs
    /\ transactions' = Unboxed(res.txs)
    /\ recurringTransactions' = recs
    /\ view' = RenderView(accs, Unboxed(res.txs))

HandleRefresh ==
    /\ modal.changed
    /\ \E res \in parseTransactionsFromCSV(disk.transactions.content) :
          /\ res.returns
          /\ Reloaded(JSONParse(disk.accounts.content), res,
                      JSONParse(disk.recurring.content))
    /\ modal' = ModalClosed(FALSE, modal.used)
    /\ UNCHANGED <<tz, now, rng, calls>>
    /\ UNCHANGED codecVars
    /\ UNCHANGED <<storeVars, disk, saves>>

\* The handlers of the App alone: the saves they start stay pending.
NextStore ==
    \/ OpenTransactionForm \/ HandleEditTransaction \/ SubmitFilledForm
    \/ HandleDeleteTransaction \/ ConfirmDelete

SpecStore == InitStore /\ [][NextStore]_vars

\* The handlers with the writes of their saves and the command of the
\* plugin going on beside them.
NextDisk ==
    \/ NextStore
    \/ FileExistsChecked \/ FileWritten
    \/ NewTransactionCommand \/ ModalSave \/ HandleRefresh

SpecDisk == InitStore /\ [][NextDisk]_vars

(***************************************************************************)
(* Properties of the recurrence engine, over the recorded invocations.     *)
(***************************************************************************)
CallIds == 1..Len(calls)

\* The rules of call c that are active and whose nextDueDate <= today in ISO
\* string order, by position.
DueIn(c) ==
    { k \in 1..Len(c.rulesIn) :
        c.rulesIn[k].active /\ StrLeq(c.rulesIn[k].nextDueDate, c.today) }

\* The same rules of the list the call returned.
DueAfter(c) ==
    { k \in 1..Len(c.updatedRecurring) :
        c.updatedRecurring[k].active
        /\ StrLeq(c.updatedRecurring[k].nextDueDate, c.today) }

\* The new transactions of call c that stem from rule r (rules differ in payee).
EmittedFor(c, r) ==
    { j \in 1..Len(c.newTransactions) : c.newTransactions[j].payee = r.payee }

\* Call i + 1 got the list call i returned, on the same day.
Chained(i) ==
    /\ calls[i + 1].rulesIn = calls[i].updatedRecurring
    /\ calls[i + 1].today = calls[i].today

\* C1 (as stated): when the engine is invoked, its updatedRecurring is taken
\* as the new rule list and it is invoked again with the same today, the
\* second invocation returns no new transaction.
C1_SecondCallEmitsNothing ==
    \A i \in 1..(Len(calls) - 1) :
        Chained(i) => calls[i + 1].newTransactions = <<>>

\* C1 (amended): under the same conditions the second invocation returns one
\* new transaction for each active rule that the first invocation left with
\* nextDueDate <= today and none for any other rule; it returns none exactly
\* when the first invocation left no such rule.
C1_SecondCallEmitsStillDue ==
    \A i \in 1..(Len(calls) - 1) :
        Chained(i) =>
            /\ \A k \in 1..Len(calls[i].updatedRecurring) :
                 Cardinality(EmittedFor(calls[i + 1], calls[i].updatedRecurring[k]))
                    = IF k \in DueAfter(calls[i]) THEN 1 ELSE 0
            /\ Len(calls[i + 1].newTransactions) = Cardinality(DueAfter(calls[i]))
            /\ (calls[i + 1].newTransactions = <<>>) <=> (DueAfter(calls[i]) = {})

\* A first call that emitted, followed on the same day by a call that did not.
C1_Witness ==
    \E i \in 1..(Len(calls) - 1) :
        /\ Chained(i)
        /\ calls[i].newTransactions # <<>>
        /\ calls[i + 1].newTransactions = <<>>

\* C2: in one invocation every active rule with nextDueDate <= today
\* contributes exactly one new transaction and every other rule none, so the
\* number of new transactions is the number of active due rules; a due rule is
\* advanced by one application of the period step, also when several periods
\* have elapsed, and no other rule is advanced.
C2_SingleCatchUp ==
    \A i \in CallIds :
        /\ Len(calls[i].newTransactions) = Cardinality(DueIn(calls[i]))
        /\ \A k \in 1..Len(calls[i].rulesIn) :
             /\ Cardinality(EmittedFor(calls[i], calls[i].rulesIn[k]))
                  = IF k \in DueIn(calls[i]) THEN 1 ELSE 0
             /\ calls[i].updatedRecurring[k].nextDueDate
                  = IF k \in DueIn(calls[i])
                    THEN calculateNextDueDate(calls[i].env.tz,
                             calls[i].rulesIn[k].nextDueDate,
                             calls[i].rulesIn[k].frequency)
                    ELSE calls[i].rulesIn[k].nextDueDate

\* A call that met a rule several periods behind: it emitted one transaction
\* for it and left it still due; another rule of the call was not due.
C2_Witness ==
    \E i \in CallIds :
        /\ \E k \in DueIn(calls[i]) :
             /\ k \in DueAfter(calls[i])
             /\ calls[i].updatedRecurring[k].nextDueDate # calls[i].rulesIn[k].nextDueDate
             /\ Cardinality(EmittedFor(calls[i], calls[i].rulesIn[k])) = 1
        /\ \E k \in 1..Len(calls[i].rulesIn) : k \notin DueIn(calls[i])

\* C3: a rule with active = false is skipped whatever its nextDueDate: no
\* transaction stems from it and its entry in updatedRecurring equals the
\* input in every field.
C3_InactiveSkipped ==
    \A i \in CallIds :
        \A k \in 1..Len(calls[i].rulesIn) :
            ~calls[i].rulesIn[k].active =>
                /\ EmittedFor(calls[i], calls[i].rulesIn[k]) = {}
                /\ calls[i].updatedRecurring[k] = calls[i].rulesIn[k]

\* A call that met a paused rule whose nextDueDate had passed, while another
\* rule of the same call emitted.
C3_Witness ==
    \E i \in CallIds :
        /\ calls[i].newTransactions # <<>>
        /\ \E k \in 1..Len(calls[i].rulesIn) :
             /\ ~calls[i].rulesIn[k].active
             /\ StrLeq(calls[i].rulesIn[k].nextDueDate, calls[i].today)
             /\ calls[i].rulesIn[k].nextDueDate # calls[i].today

\* The due rules of call c in list order.
DueSeq(c) ==
    SelectSeq(c.rulesIn, LAMBDA r : r.active /\ StrLeq(r.nextDueDate, c.today))

\* C4: the transaction emitted for a due rule is dated the rule's nextDueDate
\* before the advance (not today), has the rule's payee, the rule's
\* description followed by the recurrence marker, and the rule's splits, same
\* accounts and amounts in the same order.
C4_EmittedTransaction ==
    \A i \in CallIds :
        /\ Len(calls[i].newTransactions) = Len(DueSeq(calls[i]))
        /\ \A j \in 1..Len(calls[i].newTransactions) :
             /\ calls[i].newTransactions[j].date = DueSeq(calls[i])[j].nextDueDate
             /\ calls[i].newTransactions[j].payee = DueSeq(calls[i])[j].payee
             /\ calls[i].newTransactions[j].description
                  = DueSeq(calls[i])[j].description
                    \o <<" ", "(", "R", "e", "c", "u", "r", "r", "i", "n", "g", ")">>
             /\ calls[i].newTransactions[j].splits = DueSeq(calls[i])[j].splits

\* A call that emitted, for a rule due before today, a transaction not dated
\* today.
C4_Witness ==
    \E i \in CallIds :
        \E j \in 1..Len(calls[i].newTransactions) :
            /\ calls[i].newTransactions[j].date # calls[i].today
            /\ Len(calls[i].newTransactions[j].splits) = 2

\* The calendar date one period after the ISO date s: +1 day, +7 days, the
\* same day of the next month, the same day of the next year, overflowing
\* days rolling into the following month.
CalendarNext(s, frequency) ==
    LET y == DigitsToNat(SubSeq(s, 1, 4))
        m == DigitsToNat(SubSeq(s, 6, 7))
        d == DigitsToNat(SubSeq(s, 9, 10))
        n == CASE frequency = "daily" -> MakeDay(y, m - 1, d + 1)
               [] frequency = "weekly" -> MakeDay(y, m - 1, d + 7)
               [] frequency = "monthly" -> MakeDay(y, m, d)
               [] frequency = "yearly" -> MakeDay(y + 1, m - 1, d)
    IN  FormatISO(CivilFromDay(n))

\* C5 (as stated): after a due rule is processed its lastRun is its previous
\* nextDueDate and its nextDueDate is the previous one plus exactly one
\* period of its frequency.
C5_AdvancedByOnePeriod ==
    \A i \in CallIds :
        \A k \in DueIn(calls[i]) :
            /\ calls[i].updatedRecurring[k].lastRun = calls[i].rulesIn[k].nextDueDate
            /\ calls[i].updatedRecurring[k].nextDueDate
                 = CalendarNext(calls[i].rulesIn[k].nextDueDate,
                                calls[i].rulesIn[k].frequency)

\* C6: a monthly rule due on 2024-01-31 is advanced to 2024-03-02 in every
\* host time zone (calculateNextDueDate('2024-01-31', 'monthly') is one
\* pinned value).
C6_PinnedMonthEnd ==
    \A i \in CallIds :
        \A k \in DueIn(calls[i]) :
            (/\ calls[i].rulesIn[k].nextDueDate
                  = <<"2", "0", "2", "4", "-", "0", "1", "-", "3", "1">>
             /\ calls[i].rulesIn[k].frequency = "monthly")
            => calls[i].updatedRecurring[k].nextDueDate
                  = <<"2", "0", "2", "4", "-", "0", "3", "-", "0", "2">>

\* Such a rule was advanced in a zone west of Greenwich that keeps daylight
\* time.
C6_Witness ==
    \E i \in CallIds :
        /\ calls[i].env.tz.name = "America/New_York"
        /\ \E k \in DueIn(calls[i]) :
             /\ calls[i].rulesIn[k].nextDueDate
                  = <<"2", "0", "2", "4", "-", "0", "1", "-", "3", "1">>
             /\ calls[i].rulesIn[k].frequency = "monthly"
             /\ calls[i].updatedRecurring[k].lastRun
                  = <<"2", "0", "2", "4", "-", "0", "1", "-", "3", "1">>

\* The hidden states the engine could have met on the day of call c.
HiddenStates(c) ==
    { [tz |-> c.env.tz, now |-> n, rng |-> r] :
        n \in { t \in {c.env.now, c.env.now + 1} : ToISODate(t) = c.today },
        r \in {c.env.rng, c.env.rng + 1} }

\* C7 (as stated): the engine is a function of its explicit inputs: with the
\* same rule list, the same transaction list and the same current date it
\* returns the same new transactions and the same updated rules, whatever the
\* state of the clock and of the random generator.
C7_Deterministic ==
    \A i \in CallIds :
        \A e \in HiddenStates(calls[i]) :
            /\ processDueRecurringTransactions(e, calls[i].rulesIn,
                   calls[i].txsIn).newTransactions = calls[i].newTransactions
            /\ processDueRecurringTransactions(e, calls[i].rulesIn,
                   calls[i].txsIn).updatedRecurring = calls[i].updatedRecurring

\* C8: the call leaves its arguments as they were, and updatedRecurring has
\* the length, the rule ids and the order of the input, differing from it
\* only in lastRun and nextDueDate of due rules.
C8_ChangesOnlyThroughResult ==
    \A i \in CallIds :
        /\ calls[i].rulesAfter = calls[i].rulesIn
        /\ calls[i].txsAfter = calls[i].txsIn
        /\ Len(calls[i].updatedRecurring) = Len(calls[i].rulesIn)
        /\ \A k \in 1..Len(calls[i].rulesIn) :
             /\ calls[i].updatedRecurring[k].id = calls[i].rulesIn[k].id
             /\ [calls[i].updatedRecurring[k] EXCEPT
                    !.lastRun = calls[i].rulesIn[k].lastRun,
                    !.nextDueDate = calls[i].rulesIn[k].nextDueDate]
                  = calls[i].rulesIn[k]
             /\ k \notin DueIn(calls[i])
                  => calls[i].updatedRecurring[k] = calls[i].rulesIn[k]

\* A call on two rules that advanced one of them.
C8_Witness ==
    \E i \in CallIds :
        /\ Len(calls[i].rulesIn) = 2
        /\ \E k \in 1..2 :
             calls[i].updatedRecurring[k].nextDueDate # calls[i].rulesIn[k].nextDueDate
        /\ \E k \in 1..2 : calls[i].updatedRecurring[k] = calls[i].rulesIn[k]

(***************************************************************************)
(* Properties of the transaction codec, over the file written and read.    *)
(***************************************************************************)
Occurrences(seq, x) == Cardinality({k \in 1..Len(seq) : seq[k] = x})

\* A transaction as the round trip compares it, an absent text and the
\* empty text taken as the same.
Compared(tx) ==
    <<tx.id, tx.date, tx.createdAt, OrEmpty(tx.payee), OrEmpty(tx.description),
      tx.splits>>

ComparedList(txs) == [k \in 1..Len(txs) |-> Compared(txs[k])]

SameMultiset(xs, ys) ==
    /\ Len(xs) = Len(ys)
    /\ \A k \in 1..Len(xs) : Occurrences(xs, xs[k]) = Occurrences(ys, xs[k])

\* C9: once Transaction.csv has been written from a list of transactions
\* with unique ids and read back, the read returns, and what it returns is
\* the same multiset of (id, date, createdAt, payee, description, splits in
\* order) as the list written -- whatever commas, double quotes or line
\* feeds the payee and the description hold, and also when they are absent.
C9_RoundTrip ==
    phase \in {"loaded", "loading"} =>
        /\ parsed.returns
        /\ SameMultiset(ComparedList(parsed.txs), ComparedList(txInput))

C10_Header ==
    <<"T", "r", "a", "n", "s", "a", "c", "t", "i", "o", "n", " ", "I",
      "D", ",", "D", "a", "t", "e", ",", "C", "r", "e", "a", "t", "e",
      "d", " ", "A", "t", ",", "P", "a", "y", "e", "e", ",", "D", "e",
      "s", "c", "r", "i", "p", "t", "i", "o", "n", ",", "A", "c", "c",
      "o", "u", "n", "t", " ", "I", "D", ",", "A", "m", "o", "u", "n",
      "t">>

\* The text with each double quote written twice, position by position:
\* the character of f at j lands at j plus the number of quotes before j,
\* and once more right after when it is a quote.
C10_QuotesBefore(f, j) == Cardinality({m \in 1..(j - 1) : f[m] = "\""})

C10_Doubled(f) ==
    [m \in 1..(Len(f) + C10_QuotesBefore(f, Len(f) + 1)) |->
        f[CHOOSE j \in 1..Len(f) :
              m - (j + C10_QuotesBefore(f, j))
                  \in (IF f[j] = "\"" THEN {0, 1} ELSE {0})]]

C10_Quoted(f) ==
    <<"\"">> \o C10_Doubled(IF f = Undefined THEN <<>> ELSE f) \o <<"\"">>

C10_Row(tx, split) ==
    tx.id \o <<",">> \o tx.date \o <<",">> \o NumberToString(tx.createdAt)
    \o <<",">> \o C10_Quoted(tx.payee) \o <<",">> \o C10_Quoted(tx.description)
    \o <<",">> \o split.accountId \o <<",">> \o NumberToString(split.amount)

RECURSIVE C10_Sum(_)
C10_Sum(ns) == IF ns = <<>> THEN 0 ELSE Head(ns) + C10_Sum(Tail(ns))

\* The characters each row of transaction i takes with the line feed
\* before it.
C10_RowSizes(i) ==
    [k \in 1..Len(txInput[i].splits) |->
        1 + Len(C10_Row(txInput[i], txInput[i].splits[k]))]

\* Where the row of split k of transaction i starts in the file: after the
\* header, the rows of the transactions before i, the rows of the splits
\* before k, and its own line feed.
C10_RowStart(i, k) ==
    Len(C10_Header)
    + C10_Sum([j \in 1..(i - 1) |-> C10_Sum(C10_RowSizes(j))])
    + C10_Sum(SubSeq(C10_RowSizes(i), 1, k - 1))
    + 2

\* C10: the file written starts with the exact header row and then holds
\* exactly one row per split, each on a line of its own, transactions in
\* input order and splits in their order within the transaction; a row is
\* id, date, createdAt, "payee", "description", account id, amount joined
\* by commas, payee and description always inside double quotes with every
\* double quote of theirs doubled, account id and amount without quotes.
C10_SerializedFormat ==
    phase \in {"saved", "loaded", "loading"} =>
        /\ SubSeq(csvText, 1, Len(C10_Header)) = C10_Header
        /\ \A i \in 1..Len(txInput) : \A k \in 1..Len(txInput[i].splits) :
              /\ csvText[C10_RowStart(i, k) - 1] = "\n"
              /\ SubSeq(csvText, C10_RowStart(i, k),
                        C10_RowStart(i, k) + C10_RowSizes(i)[k] - 2)
                     = C10_Row(txInput[i], txInput[i].splits[k])
        /\ Len(csvText)
             = Len(C10_Header)
               + C10_Sum([j \in 1..Len(txInput) |-> C10_Sum(C10_RowSizes(j))])

\* A file has been written from two transactions, the first with a double
\* quote in its payee and the second with one in its description.
C10_Witness ==
    /\ phase = "saved"
    /\ Len(txInput) = 2
    /\ txInput[1].payee # Undefined
    /\ \E k \in 1..Len(txInput[1].payee) : txInput[1].payee[k] = "\""
    /\ \E k \in 1..Len(txInput[2].description) : txInput[2].description[k] = "\""
    /\ Len(csvText) > Len(C10_Header)

(***************************************************************************)
(* Properties of parseTransactionsFromCSV, over a file found and read.     *)
(***************************************************************************)
\* The data lines of the file, trimmed, in file order.
DataLinesRead ==
    LET lines == SplitLines(csvText)
    IN  [i \in 1..(Len(lines) - 1) |-> Trim(lines[i + 1])]

HasLine(line) == \E i \in 1..Len(DataLinesRead) : DataLinesRead[i] = line

\* C11: in a row whose quoted Payee holds commas and doubled quotes -- the
\* row t1,2024-04-01,20,"a,""b""",d,a1,5, the first row of t1 in the file --
\* the comma inside the quotes stays a character of the payee and each ""
\* comes back as one ": the payee read is a,"b".
C11_Payee == <<"a", ",", "\"", "b", "\"">>

C11_QuotedFieldRestored ==
    ( /\ phase = "loaded"
      /\ QuotedLine = CsvLine(<< <<"t", "1">>, ISO(2024, 4, 1), <<"2", "0">>,
                                 C10_Quoted(C11_Payee), <<"d">>, <<"a", "1">>,
                                 <<"5">> >>)
      /\ HasLine(QuotedLine)
      /\ ~HasLine(SameIdLine) )
    => \E k \in 1..Len(parsed.txs) :
           /\ parsed.txs[k].id = <<"t", "1">>
           /\ parsed.txs[k].payee = C11_Payee

\* A data line as the parser takes it: whether it is taken at all (not
\* blank, 7 matches or more) and the fields it is read as.
C12_Row(line) ==
    LET f == CleanRow(ScanRow(line, <<>>, <<>>, FALSE))
    IN  [valid |-> line # <<>> /\ RegexMatches(line) >= 7,
         id |-> Element(f, 1), date |-> Element(f, 2),
         createdAt |-> ToNumber(Element(f, 3)),
         payee |-> Element(f, 4), description |-> Element(f, 5),
         split |-> [accountId |-> Element(f, 6),
                    amount |-> ToNumber(Element(f, 7))],
         amountText |-> Element(f, 7),
         fieldCount |-> Len(f)]

C12_Rows ==
    LET lines == DataLinesRead
    IN  [i \in 1..Len(lines) |-> C12_Row(lines[i])]

\* The valid rows of one id, in row-encounter order.
C12_RowsOf(rows, id) == SelectSeq(rows, LAMBDA r : r.valid /\ r.id = id)

\* C12: the transactions read are one per distinct id among the valid rows,
\* whether the rows of an id are adjacent or not; the splits of each are
\* the rows of its id in row-encounter order, one split per row, and its
\* date, createdAt, payee and description are those of the first such row.
C12_GroupedById ==
    phase = "loaded" =>
      LET all == C12_Rows
      IN
        /\ \A j, k \in 1..Len(parsed.txs) :
               parsed.txs[j].id = parsed.txs[k].id => j = k
        /\ { parsed.txs[k].id : k \in 1..Len(parsed.txs) }
               = { all[i].id : i \in { n \in 1..Len(all) : all[n].valid } }
        /\ \A k \in 1..Len(parsed.txs) :
               LET tx == parsed.txs[k]
                   rows == C12_RowsOf(all, tx.id)
               IN  /\ rows # <<>>
                   /\ tx.splits = [n \in 1..Len(rows) |-> rows[n].split]
                   /\ tx.date = rows[1].date
                   /\ tx.createdAt = rows[1].createdAt
                   /\ tx.payee = rows[1].payee
                   /\ tx.description = rows[1].description

\* A file with a row of t1, a row of t2 and another row of t1 has been read
\* into two transactions.
C12_Witness ==
    /\ phase = "loaded"
    /\ DataLinesRead = <<QuotedLine, PlainLine, SameIdLine>>
    /\ Len(parsed.txs) = 2

\* a >= b on numbers: false when either is NaN.
GreaterOrEqual(a, b) == a # NaN /\ b # NaN /\ a[1] >= b[1]

\* C13: the list read is sorted by createdAt descending: of every two
\* adjacent transactions the earlier one's createdAt is >= the later one's.
C13_SortedDescending ==
    phase = "loaded" =>
        \A k \in 1..(Len(parsed.txs) - 1) :
            GreaterOrEqual(parsed.txs[k].createdAt, parsed.txs[k + 1].createdAt)

\* The file without the data lines that have fewer than 7 fields by the
\* quote-aware scanner.
C14_IsShort(line) == line # <<>> /\ C12_Row(line).fieldCount < 7

C14_WithoutShortRows ==
    CsvFile(SelectSeq(DataLinesRead, LAMBDA line : ~C14_IsShort(line)))

\* C14: when the file has data rows with fewer than 7 fields by the
\* quote-aware scanner (a row cut short, a row with an unbalanced quote),
\* reading it returns what reading the file without those rows returns.
C14_ShortRowsSkipped ==
    ( /\ phase \in {"loaded", "loading"}
      /\ \E i \in 1..Len(DataLinesRead) : C14_IsShort(DataLinesRead[i]) )
    => parsed \in parseTransactionsFromCSV(C14_WithoutShortRows)

\* C15: reading never stays in the parser: for every file, also one with a
\* line that starts with a comma or holds an unterminated quote, the call
\* returns.
C15_ParseReturns == phase # "loading"

\* The file without the rows the parser skips for having too few fields.
C16_Skipped(line) == line # <<>> /\ RegexMatches(line) \in 0..6

C16_WithoutSkippedRows ==
    CsvFile(SelectSeq(DataLinesRead, LAMBDA line : ~C16_Skipped(line)))

\* C16: when a row was skipped for having too few fields, what the call
\* returns tells the caller so: it is not a result the file without the
\* skipped rows can give.
C16_SkippedRowReported ==
    ( /\ phase = "loaded"
      /\ \E i \in 1..Len(DataLinesRead) : C16_Skipped(DataLinesRead[i]) )
    => parsed \notin parseTransactionsFromCSV(C16_WithoutSkippedRows)

\* A numeric literal of the model's characters: digits, with or without a
\* minus sign, blanks around them allowed.
C17_IsNumeric(text) ==
    /\ text # Undefined
    /\ \/ AllDigits(Trim(text))
       \/ Trim(text) # <<>> /\ Head(Trim(text)) = "-" /\ AllDigits(Tail(Trim(text)))

\* C17: for every row read with at least 7 fields whose Amount is not a
\* numeric literal (an empty Amount included), the split of that row has
\* the amount NaN.
C17_InvalidAmountIsNaN ==
    phase = "loaded" =>
        \A k \in 1..Len(parsed.txs) :
            LET rows == C12_RowsOf(C12_Rows, parsed.txs[k].id)
            IN  \A n \in 1..Len(rows) :
                    (rows[n].fieldCount >= 7 /\ ~C17_IsNumeric(rows[n].amountText))
                    => /\ n <= Len(parsed.txs[k].splits)
                       /\ parsed.txs[k].splits[n].amount = NaN

(***************************************************************************)
(* Properties of the account functions, over what the App renders.         *)
(***************************************************************************)
Rendered == phase = "ready"

\* The sum of the values f gives on a finite set of indices.
RECURSIVE SumOver(_, _)
SumOver(set, f) ==
    IF set = {} THEN 0
    ELSE LET k == CHOOSE k \in set : TRUE
         IN  f[k] + SumOver(set \ {k}, f)

\* The sum of the amounts of all splits on an account, over all
\* transactions: split n of transaction t counts when it is on the account.
C18_OwnSum(id) ==
    LET positions == { <<t, n>> \in (1..Len(transactions)) \X (1..10) :
                         /\ n <= Len(transactions[t].splits)
                         /\ transactions[t].splits[n].accountId = id }
    IN  SumOver(positions,
                [pos \in positions |-> transactions[pos[1]].splits[pos[2]].amount])

C18_DirectChildren(i) ==
    { k \in 1..Len(accounts) : accounts[k].parentId = accounts[i].id }

\* C18: in the rows getFlattenedBalances returns, the balance of an account
\* without children is the sum of the amounts of all splits on it, and the
\* balance of an account with children is that sum plus the sum of the
\* balances the rows report for its direct children; with A (root), B
\* (child of A) and one split of 100 on B, both A and B have balance 100.
C18_FlattenedBalancesIdentity ==
    (Rendered /\ ~view.balances.throws) =>
        /\ Len(view.balances.rows) = Len(accounts)
        /\ \A i \in 1..Len(accounts) :
              /\ view.balances.rows[i].id = accounts[i].id
              /\ view.balances.rows[i].balance
                   = C18_OwnSum(accounts[i].id)
                     + SumOver(C18_DirectChildren(i),
                               [k \in C18_DirectChildren(i) |->
                                   view.balances.rows[k].balance])
        /\ ( /\ accounts = <<Account(<<"a">>, Null, <<"A">>),
                             Account(<<"b">>, <<"a">>, <<"B">>)>>
             /\ Len(transactions) = 1
             /\ transactions[1].splits = <<LedgerSplit(<<"b">>, 100)>> )
           => /\ view.balances.rows[1].balance = 100
              /\ view.balances.rows[2].balance = 100

\* A (root), B (child of A) and a single split of 100 on B have been
\* rendered, and both rows report 100.
C18_Witness ==
    /\ Rendered
    /\ accounts = <<Account(<<"a">>, Null, <<"A">>),
                    Account(<<"b">>, <<"a">>, <<"B">>)>>
    /\ Len(transactions) = 1
    /\ transactions[1].splits = <<LedgerSplit(<<"b">>, 100)>>
    /\ ~view.balances.throws
    /\ view.balances.rows[1].balance = 100
    /\ view.balances.rows[2].balance = 100

C19_IsOrphan(acc) ==
    acc.parentId # Null /\ acc.parentId \notin AccountIds(accounts)

\* C19: every account whose parentId is not null and is the id of no
\* account is a root of the forest buildAccountTree returns, once, and its
\* node has as children the accounts whose parentId is its id, in list
\* order.
C19_OrphansAtRoot ==
    Rendered =>
        \A i \in 1..Len(accounts) :
            C19_IsOrphan(accounts[i]) =>
                /\ Occurrences(view.treeRoots.roots, accounts[i].id) = 1
                /\ view.treeRoots.nodes[accounts[i].id].children
                     = IdsOf(SelectSeq(accounts,
                                       LAMBDA c : c.parentId = accounts[i].id))

\* A (root), B with a parentId of no account, and C under B have been
\* rendered: B is a root and keeps C.
C19_Witness ==
    /\ Rendered
    /\ accounts = <<Account(<<"a">>, Null, <<"A">>),
                    Account(<<"b">>, <<"z">>, <<"B">>),
                    Account(<<"c">>, <<"b">>, <<"C">>)>>
    /\ view.treeRoots.roots = << <<"a">>, <<"b">> >>
    /\ view.treeRoots.nodes[<<"b">>].children = << <<"c">> >>

\* The chain of an account: its index, its parent's, ... up to the account
\* without a parentId or with one that resolves to no account; cyclic when
\* the walk comes back to an account it has seen.
RECURSIVE C20_Walk(_, _)
C20_Walk(k, chain) ==
    LET parent == IF Truthy(accounts[k].parentId)
                  THEN FindIndexById(accounts, accounts[k].parentId) ELSE 0
    IN  IF parent = 0 THEN [cyclic |-> FALSE, chain |-> <<k>> \o chain]
        ELSE IF parent = k \/ \E n \in 1..Len(chain) : chain[n] = parent
             THEN [cyclic |-> TRUE, chain |-> <<k>> \o chain]
        ELSE C20_Walk(parent, <<k>> \o chain)

\* The names of a chain, root first, joined by ':'.
C20_Names(chain) == Join([n \in 1..Len(chain) |-> accounts[chain[n]].name], <<":">>)

\* The last n elements of a chain (all when it has fewer).
C20_Last(chain, n) ==
    IF Len(chain) <= n THEN chain ELSE SubSeq(chain, Len(chain) - n + 1, Len(chain))

\* C20 as stated: for an account whose ancestor chain is acyclic the path
\* is the names of all its ancestors and its own, root first, joined by ':'.
C20_FullPath ==
    Rendered =>
        \A i \in 1..Len(accounts) :
            ~C20_Walk(i, <<>>).cyclic =>
                view.paths[i] = C20_Names(C20_Walk(i, <<>>).chain)

\* C20 amended: for an account whose ancestor chain is acyclic the path is
\* the names of its nearest ancestors, at most 20 of them, and its own,
\* farthest ancestor first, joined by ':' -- all its ancestors, from the
\* root, when it has no more than 20.
C20_PathOfNearestAncestors ==
    Rendered =>
        \A i \in 1..Len(accounts) :
            ~C20_Walk(i, <<>>).cyclic =>
                view.paths[i]
                  = C20_Names(C20_Last(C20_Walk(i, <<>>).chain, MaxPathDepth + 1))

\* The deep chain has been rendered: the account with 20 ancestors has its
\* path from the root, the one with 21 has it from the root's child.
C20_Witness ==
    /\ Rendered
    /\ accounts = DeepChain
    /\ view.paths[MaxPathDepth + 1]
         = C20_Names([n \in 1..(MaxPathDepth + 1) |-> n])
    /\ view.paths[MaxPathDepth + 2]
         = C20_Names([n \in 1..(MaxPathDepth + 1) |-> n + 1])

\* The index of the account a parentId resolves to: 0 when the account has
\* no parentId or the parentId is the id of no account.
C21_ParentIndex(k) ==
    IF Truthy(accounts[k].parentId)
    THEN FindIndexById(accounts, accounts[k].parentId) ELSE 0

\* The accounts met from account k over at most n parent links, the
\* farthest first.
RECURSIVE C21_Follow(_, _, _)
C21_Follow(k, n, chain) ==
    IF n = 0 \/ C21_ParentIndex(k) = 0 THEN <<k>> \o chain
    ELSE C21_Follow(C21_ParentIndex(k), n - 1, <<k>> \o chain)

\* The number of names of a path (no account name holds the separator).
C21_NamesIn(path) == 1 + Cardinality({p \in 1..Len(path) : path[p] = ":"})

C21_OnCycle(i) == C20_Walk(i, <<>>).cyclic

\* C21: getAccountPath returns for every account of every list, also when
\* the parentId links form a cycle or a self-loop: the path has at most 21
\* names, which are the names of the accounts met over at most 20 parent
\* links, and on a cycle it stops after exactly 20 links.
C21_PathWalkBounded ==
    Rendered =>
        /\ Len(view.paths) = Len(accounts)
        /\ \A i \in 1..Len(accounts) :
              /\ C21_NamesIn(view.paths[i]) <= MaxPathDepth + 1
              /\ view.paths[i] = C20_Names(C21_Follow(i, MaxPathDepth, <<>>))
              /\ C21_OnCycle(i) => C21_NamesIn(view.paths[i]) = MaxPathDepth + 1

\* An account that is its own parent and two accounts that are each
\* other's parent have been rendered, each with a path of 21 names.
C21_Witness ==
    /\ Rendered
    /\ Len(accounts) = 3
    /\ accounts[1].parentId = accounts[1].id
    /\ accounts[2].parentId = accounts[3].id
    /\ accounts[3].parentId = accounts[2].id
    /\ \A i \in 1..3 : C21_NamesIn(view.paths[i]) = MaxPathDepth + 1
    /\ SubSeq(view.paths[2], 1, 4)
         = accounts[2].name \o <<":">> \o accounts[3].name \o <<":">>

\* C22: whenever getDescendantAccountIds(rootId, accounts) returns, the set
\* holds rootId, also when rootId is the id of no account, and for every
\* account c with c.parentId = rootId the call for c.id returns a subset of
\* it.
C22_ContainsRootAndChildSets ==
    Rendered =>
        \A rootId \in DOMAIN view.descendants :
            view.descendants[rootId].returns =>
                /\ rootId \in view.descendants[rootId].ids
                /\ \A k \in 1..Len(accounts) :
                      accounts[k].parentId = rootId =>
                          /\ view.descendants[accounts[k].id].returns
                          /\ view.descendants[accounts[k].id].ids
                                \subseteq view.descendants[rootId].ids

\* A (root), B under A and C under B have been rendered: the set of A
\* holds all three, the set of B holds B and C, and the set asked for the
\* id of no account holds that id.
C22_Witness ==
    /\ Rendered
    /\ Len(accounts) = 3
    /\ accounts[1].parentId = Null
    /\ accounts[2].parentId = accounts[1].id
    /\ accounts[3].parentId = accounts[2].id
    /\ view.descendants[accounts[1].id]
         = [returns |-> TRUE, ids |-> AccountIds(accounts)]
    /\ view.descendants[accounts[2].id].ids = {accounts[2].id, accounts[3].id}
    /\ view.descendants[<<"z">>] = [returns |-> TRUE, ids |-> {<<"z">>}]

\* C23: getDescendantAccountIds returns for every id asked of every account
\* list, also a list whose parentId links hold a cycle or an account that
\* is its own parent.
C23_DescendantsReturn ==
    Rendered =>
        \A rootId \in DOMAIN view.descendants : view.descendants[rootId].returns

\* The ids of the nodes met when the forest is walked from its roots
\* through children, over at most n levels.
RECURSIVE C27_WalkedFrom(_, _, _)
C27_WalkedFrom(tree, met, n) ==
    IF n = 0 THEN met
    ELSE C27_WalkedFrom(tree,
             met \cup UNION {{tree.nodes[id].children[c] :
                                  c \in 1..Len(tree.nodes[id].children)} : id \in met},
             n - 1)

C27_Walked(tree) ==
    C27_WalkedFrom(tree, {tree.roots[r] : r \in 1..Len(tree.roots)},
                   Cardinality(DOMAIN tree.nodes))

\* The number of places of the walk that hold the node of id: as a root, or
\* as a child of a node that is met.
C27_Places(tree, id) ==
    Occurrences(tree.roots, id)
    + SumOver(C27_Walked(tree),
              [p \in C27_Walked(tree) |-> Occurrences(tree.nodes[p].children, id)])

\* C27: every account of a list with unique ids is met exactly once when
\* the forest of buildAccountTree is walked from its roots through children,
\* also when parentId links are dangling, self-referencing or cyclic, and
\* the accounts handed in are as they were.
C27_EveryAccountOnce ==
    Rendered =>
        /\ view.treeRoots.inputAfter = accounts
        /\ \A i \in 1..Len(accounts) :
              /\ accounts[i].id \in C27_Walked(view.treeRoots)
              /\ C27_Places(view.treeRoots, accounts[i].id) = 1

\* No account of the list is on a cycle of parentId links or above one.
C28_Acyclic == \A i \in 1..Len(accounts) : ~C21_OnCycle(i)

\* The amounts of all splits, over all transactions, on an account of ids.
C28_SplitsOn(ids) ==
    LET at == UNION {{<<t, n>> : n \in {m \in 1..Len(transactions[t].splits) :
                                           transactions[t].splits[m].accountId \in ids}} :
                        t \in 1..Len(transactions)}
    IN  SumOver(at, [p \in at |-> transactions[p[1]].splits[p[2]].amount])

\* C28: on an acyclic account list with unique ids calculateTreeBalance and
\* getDescendantAccountIds both return, and the balance of every account is
\* the sum of the amounts of the splits, over all transactions, whose
\* accountId is among its descendant ids; no other split counts.
C28_TraversalsAgree ==
    (Rendered /\ C28_Acyclic) =>
        /\ ~view.balances.throws
        /\ \A i \in 1..Len(accounts) :
              /\ view.descendants[accounts[i].id].returns
              /\ view.balances.rows[i].balance
                   = C28_SplitsOn(view.descendants[accounts[i].id].ids)

\* Two accounts under a third, splits on all three, on an account further
\* away and on an id of no account: 5 + (7 - 5) - 4 = 3 at the top.
C28_Witness ==
    /\ Rendered
    /\ Len(accounts) = 3
    /\ accounts[1].parentId = Null
    /\ accounts[2].parentId = accounts[1].id
    /\ accounts[3].parentId = accounts[1].id
    /\ Len(transactions) = 2
    /\ view.descendants[accounts[1].id].ids = AccountIds(accounts)
    /\ view.balances.rows[1].balance = 3
    /\ view.balances.rows[2].balance = 2
    /\ C28_SplitsOn(AccountIds(accounts)) = 3
    /\ C28_SplitsOn({<<"z">>}) = -3

(***************************************************************************)
(* Properties of the forms, over what they handed to their callbacks.      *)
(***************************************************************************)
C24_SplitSum(splits) ==
    SumOver(1..Len(splits), [n \in 1..Len(splits) |-> splits[n].amount])

\* C24: every transaction TransactionForm.handleSubmit hands to onSave, in
\* any of its four modes, and every rule RecurringManager.handleSubmit
\* hands to onAdd or onUpdate has at least 2 splits whose amounts sum to
\* zero, also when a journal line without an account carries an amount.
C24_BalancedByConstruction ==
    \A k \in 1..Len(handed) :
        /\ Len(handed[k].value.splits) >= 2
        /\ C24_SplitSum(handed[k].value.splits) = 0

(***************************************************************************)
(* Properties of the store and of the files behind it.                     *)
(***************************************************************************)
C25_Called(callback) ==
    /\ Len(handed') = Len(handed) + 1
    /\ handed'[Len(handed')].callback = callback

C25_Value == handed'[Len(handed')].value

C25_NewPrepends ==
    (C25_Called("onSave") /\ editingTransaction = <<>>)
        => transactions' = <<C25_Value>> \o transactions

C25_EditReplaces ==
    (C25_Called("onSave") /\ editingTransaction # <<>>)
        => /\ C25_Value.id = editingTransaction[1].id
           /\ C25_Value.createdAt = editingTransaction[1].createdAt
           /\ Len(transactions') = Len(transactions)
           /\ \E k \in 1..Len(transactions) : transactions[k].id = C25_Value.id
           /\ \A k \in 1..Len(transactions) :
                 transactions'[k] = IF transactions[k].id = C25_Value.id
                                    THEN C25_Value ELSE transactions[k]

C25_DeleteRemoves ==
    C25_Called("onConfirm")
        => transactions' = SelectSeq(transactions, LAMBDA t : t.id # C25_Value)

\* C25: a new save puts the transaction first and leaves the entries of the
\* store as they were; an edit replaces exactly the entry with the id of the
\* edited transaction, keeping its id, its createdAt, its position and the
\* length of the store; a confirmed delete removes exactly the entries with
\* that id and nothing else.
C25_StoreLifecycle ==
    [][C25_NewPrepends /\ C25_EditReplaces /\ C25_DeleteRemoves]_vars

(***************************************************************************)
(* Catching up: the engine fed with its own result on one day.             *)
(***************************************************************************)
\* The dates of the transactions emitted for a rule, first emitted first
\* (the rules of the model differ in their payee).
C26_DatesOf(rule) ==
    LET mine == SelectSeq(transactions, LAMBDA t : t.payee = rule.payee)
    IN  [j \in 1..Len(mine) |-> mine[Len(mine) + 1 - j].date]

C26_CaughtUp ==
    \A k \in 1..Len(recurringTransactions) :
        recurringTransactions[k].active
            => ~StrLeq(recurringTransactions[k].nextDueDate, ToISODate(now))

C26_OnePerDueDate ==
    \A k \in 1..Len(recurringTransactions) :
        LET d == C26_DatesOf(recurringTransactions[k])
        IN  /\ \A j \in 1..Len(d) : StrLeq(d[j], ToISODate(now))
            /\ \A j \in 1..(Len(d) - 1) :
                  /\ StrLeq(d[j], d[j + 1]) /\ d[j] # d[j + 1]
                  /\ d[j + 1] = calculateNextDueDate(tz, d[j],
                                     recurringTransactions[k].frequency)
            /\ d # <<>> =>
                  recurringTransactions[k].nextDueDate
                      = calculateNextDueDate(tz, d[Len(d)],
                                             recurringTransactions[k].frequency)

\* C26: with today fixed and the rules each call returns handed to the next
\* call, every active rule stops emitting after finitely many calls, with
\* its nextDueDate after today, and the transactions emitted for it carry
\* its successive due dates up to today, one each, in increasing order.
C26_CatchUpEnds == <>[]C26_CaughtUp /\ []C26_OnePerDueDate

(***************************************************************************)
(* Conservation over the store.                                            *)
(***************************************************************************)
C29_Balanced ==
    \A t \in 1..Len(transactions) : C24_SplitSum(transactions[t].splits) = 0

C29_OnAccounts ==
    \A t \in 1..Len(transactions) : \A n \in 1..Len(transactions[t].splits) :
        transactions[t].splits[n].accountId \in AccountIds(accounts)

\* The rows of the root-level accounts: the roots of buildAccountTree.
C29_RootRows ==
    {i \in 1..Len(accounts) : Occurrences(view.treeRoots.roots, accounts[i].id) > 0}

C29_RootSum ==
    SumOver(C29_RootRows, [i \in C29_RootRows |-> view.balances.rows[i].balance])

\* C29: whenever every transaction of the store sums to zero and every
\* split is on an account of the acyclic account list, getFlattenedBalances
\* returns and its balances of the root-level accounts of buildAccountTree
\* (no parentId, or a parent that is not there) sum to zero: after every
\* sequence of saves of new transactions, edits and deletes.
C29_LedgerConservation ==
    (C29_Balanced /\ C29_OnAccounts /\ C28_Acyclic) =>
        /\ ~view.balances.throws
        /\ C29_RootSum = 0

\* A balanced transaction over three accounts was saved and the one there
\* was deleted: 3 on the nested account, 2 on the orphan, -5 on the asset.
C29_Witness ==
    /\ Len(handed) = 2
    /\ handed[1].callback = "onSave" /\ handed[2].callback = "onConfirm"
    /\ Len(transactions) = 1 /\ Len(transactions[1].splits) = 3
    /\ C29_Balanced /\ C29_OnAccounts /\ C28_Acyclic
    /\ C29_RootRows = {1, 2, 4}
    /\ view.balances.rows[1].balance = -5
    /\ view.balances.rows[2].balance = 3
    /\ view.balances.rows[4].balance = 2

(***************************************************************************)
(* Saves that overlap, and the command beside them.                        *)
(***************************************************************************)
C30_AllCompleted ==
    /\ saves # <<>>
    /\ \A i \in 1..Len(saves) : saves[i].step \in {"done", "failed"}

\* The three files hold what the save started last was handed (the command
\* has not been used).
C30_LastSaveWins ==
    (C30_AllCompleted /\ modal.used = 0) =>
        \A k \in 1..Len(FileNames) :
            disk[FileNames[k]].content = ContentOf(saves[Len(saves)], k)

\* A file written by a save is not written afterwards by a save started
\* before that one.
C30_NoOlderWriteLater ==
    \A k \in 1..Len(FileNames) :
        (disk[FileNames[k]].by # 0 /\ disk'[FileNames[k]].by # 0)
            => disk'[FileNames[k]].by >= disk[FileNames[k]].by

\* The ids of the transactions a Transaction.csv holds, as read back.
C30_IdsIn(file) ==
    LET res == CHOOSE r \in parseTransactionsFromCSV(file.content) : r.returns
    IN  {res.txs[k].id : k \in 1..Len(res.txs)}

\* The write of the command keeps every transaction the file held.
C30_CommandKeeps ==
    (modal.open /\ ~modal'.open)
        => C30_IdsIn(disk.transactions) \subseteq C30_IdsIn(disk'.transactions)

\* C30: once all the saves that were started have completed, the three
\* files hold the state handed to the save started last; no write of an
\* older save lands after the write of a newer one; and the write of the
\* New Transaction command, made from the snapshot it read when it opened,
\* erases no transaction written to the file since.
C30_OverlappingSaves ==
    []C30_LastSaveWins /\ [][C30_NoOlderWriteLater /\ C30_CommandKeeps]_vars

====
